---- MODULE Spec2Model ----
(***************************************************************************)
(* NotBroke backend: the in-memory rate limiter (app/rate_limit.py), the   *)
(* TTL cache (app/cache.py) and the request handlers of app/main.py that   *)
(* use them over a transactional session (app/database.py, app/crud.py).   *)
(*                                                                         *)
(* Time is in whole seconds.  The clock is shared by time.time() and       *)
(* datetime.utcnow().                                                      *)
(***************************************************************************)
EXTENDS Integers, Sequences, FiniteSets, TLC

VARIABLES
    now,               \* the wall clock, in seconds
    last,              \* the step just taken and what it returned
    rate_limit_store,  \* rate_limit._rate_limit_store: key -> list of <<ts, count>>
    limits,            \* requests_per_minute each endpoint is checked with
    rlHist,            \* history: the check_rate_limit calls of identified clients
    running,           \* the coroutine the event loop is executing, or Idle
    pc,                \* where each request's handler coroutine stands
    request_counts,    \* check_rate_limit's local request_count, per coroutine
    cache,             \* cache._CACHE: key -> [expires_at, value]
    cache_stats,       \* cache._cache_stats
    lastSet,           \* history: per key, the latest set not invalidated since
    cacheCalls,        \* history: calls made to the cache functions
    callCounts,        \* history: get calls, set calls and entries removed by
                       \* invalidate since the last reset_stats
    db,                \* the committed rows of the categories and expenses tables
    users,             \* the committed rows of the users table
    req                \* the requests to the category, expense and summary routes

rlVars == <<rate_limit_store, limits, rlHist>>
loopVars == <<running, pc, request_counts>>
cacheVars == <<cache, cache_stats, lastSet, cacheCalls, callCounts>>
appVars == <<db, users, req>>
vars == <<now, last, rate_limit_store, limits, rlHist, running, pc, request_counts,
          cache, cache_stats, lastSet, cacheCalls, callCounts, db, users, req>>

\* what the steps of each specification leave alone
outsideRL == <<loopVars, cacheVars, appVars>>
outsideLogin == <<cacheVars, appVars>>
outsideCache == <<rlVars, loopVars, appVars>>
outsideApp == <<rlVars, loopVars, lastSet, cacheCalls, callCounts, users>>
outsideAppCache == <<rlVars, loopVars, cacheCalls, callCounts, users>>
outsidePath == <<now, rlVars, loopVars, cacheVars, db, users>>
outsideAuth == <<limits, rlHist, loopVars, lastSet, cacheCalls, callCounts, db>>

-----------------------------------------------------------------------------
(* Bounds of the exploration *)

MaxTime == 90      \* the clock stops here
MaxCalls == 4      \* check_rate_limit calls explored in one behaviour
MaxPairCalls == 3  \* check_rate_limit calls explored with two clients
MaxLimit == 2      \* largest requests_per_minute explored
MaxReq == 3        \* requests in flight at once
MaxCacheCalls == 4 \* calls to the cache functions explored in one behaviour
MaxAppReq == 2     \* requests to the category, expense and summary routes
MaxAuthReq == 2    \* requests to /auth/register and /auth/login
MaxPathId == 3     \* category ids in the maps given to _build_category_path_from_map

Advances == {30, 59}   \* the amounts the clock advances by in one step

-----------------------------------------------------------------------------
(* Python values *)

None == "<None>"

FalsyNoneOnly(s) == s = None

\* not client_ip
Falsy(s) == s = None \/ s = ""

\* no coroutine is running: the event loop is free (requests are numbered from 1)
Idle == 0

-----------------------------------------------------------------------------
(* app/rate_limit.py *)

Endpoints == {"/auth/register", "/auth/login"}
ClientIps == {"10.0.0.1"}
UnknownClients == {None, ""}

Window == 60

RateLimitKeyByEndpoint(endpoint, client_ip) == endpoint

\* key = f"{endpoint}:{client_ip}"
RateLimitKey(endpoint, client_ip) == endpoint \o ":" \o client_ip

RECURSIVE SumCounts(_)
SumCounts(entries) ==
    IF entries = <<>> THEN 0
    ELSE Head(entries)[2] + SumCounts(Tail(entries))

FreshInclusive(ts, current_time) == ts >= current_time - Window

Fresh(ts, current_time) == ts > current_time - Window

CleanNothing(st, key, current_time) == st

\* "Clean old entries": only a key already in the store is filtered
CleanOld(st, key, current_time) ==
    IF key \in DOMAIN st
    THEN [st EXCEPT ![key] = SelectSeq(@, LAMBDA e : Fresh(e[1], current_time))]
    ELSE st

\* reading a defaultdict(list) at a missing key stores an empty list there
DefaultList(st, key) == IF key \in DOMAIN st THEN st ELSE st @@ (key :> <<>>)

OverLimitStrict(request_count, requests_per_minute) ==
    request_count > requests_per_minute

OverLimit(request_count, requests_per_minute) ==
    request_count >= requests_per_minute

RejectCounting(st, key, current_time, request_count) ==
    [st EXCEPT ![key] = <<<<current_time, request_count + 1>>>>]

RejectRefreshing(st, key, current_time, request_count) ==
    [st EXCEPT ![key] = <<<<current_time, request_count>>>>]

\* the store a rejected call leaves
Reject(st, key, current_time, request_count) == st

AddRequestAppending(st, key, current_time, request_count) ==
    [st EXCEPT ![key] = Append(@, <<current_time, 1>>)]

\* "Add this request": the latest entry is overwritten, never appended to
AddRequest(st, key, current_time, request_count) ==
    IF st[key] # <<>>
    THEN [st EXCEPT ![key] = [@ EXCEPT ![Len(@)] = <<current_time, request_count + 1>>]]
    ELSE [st EXCEPT ![key] = <<<<current_time, 1>>>>]

\* the value returned and the store left by check_rate_limit
check_rate_limit(st, endpoint, client_ip, requests_per_minute, current_time) ==
    IF Falsy(client_ip)
    THEN [ok |-> TRUE, store |-> st]
    ELSE LET key == RateLimitKey(endpoint, client_ip)
             cleaned == DefaultList(CleanOld(st, key, current_time), key)
             request_count == SumCounts(cleaned[key])
         IN  IF OverLimit(request_count, requests_per_minute)
             THEN [ok |-> FALSE,
                   store |-> Reject(cleaned, key, current_time, request_count)]
             ELSE [ok |-> TRUE,
                   store |-> AddRequest(cleaned, key, current_time, request_count)]

\* the count the store holds for a key
StoredCount(st, key) == IF key \in DOMAIN st THEN SumCounts(st[key]) ELSE 0

-----------------------------------------------------------------------------
(* app/cache.py.  A key is the sequence of its characters. *)

DEFAULT_TTL == 60

EmptyStats == [hits |-> 0, misses |-> 0, sets |-> 0, invalidations |-> 0]

NoSet == [t |-> -1, ttl |-> 0, value |-> None]

NoCalls == [gets |-> 0, sets |-> 0, removed |-> 0]

\* the cache as the module is imported: nothing stored, nothing counted
CacheUnused ==
    /\ cache = <<>>
    /\ cache_stats = EmptyStats
    /\ lastSet = <<>>
    /\ cacheCalls = 0
    /\ callCounts = NoCalls

\* no table row and no request yet
AppUnused ==
    /\ db = [categories |-> <<>>, expenses |-> <<>>]
    /\ users = <<>>
    /\ req = <<>>

ExpiredNever(expires_at, utcnow) == FALSE

ExpiredStrict(expires_at, utcnow) == utcnow > expires_at

\* get: `datetime.utcnow() >= expires_at`
Expired(expires_at, utcnow) == utcnow >= expires_at

StartsWithExactly(key, prefix) == key = prefix

\* str.startswith
StartsWith(key, prefix) ==
    /\ Len(prefix) <= Len(key)
    /\ SubSeq(key, 1, Len(prefix)) = prefix

\* the dict without the keys of a set
Without(c, keys) == [k \in DOMAIN c \ keys |-> c[k]]

BumpByOne(stats, counter, n) == [stats EXCEPT ![counter] = @ + 1]

\* _cache_stats[counter] += n
Bump(stats, counter, n) == [stats EXCEPT ![counter] = @ + n]

cache_get_refreshing(c, stats, key, utcnow) ==
    IF key \notin DOMAIN c
    THEN [ret |-> None, cache |-> c, stats |-> Bump(stats, "misses", 1)]
    ELSE IF Expired(c[key].expires_at, utcnow)
    THEN [ret |-> None, cache |-> Without(c, {key}),
          stats |-> Bump(stats, "misses", 1)]
    ELSE [ret |-> c[key].value,
          cache |-> [c EXCEPT ![key].expires_at = utcnow + DEFAULT_TTL],
          stats |-> Bump(stats, "hits", 1)]

\* get(key): the value returned (None for absent), the cache and the counters left
cache_get(c, stats, key, utcnow) ==
    IF key \notin DOMAIN c
    THEN [ret |-> None, cache |-> c, stats |-> Bump(stats, "misses", 1)]
    ELSE IF Expired(c[key].expires_at, utcnow)
    THEN [ret |-> None, cache |-> Without(c, {key}),
          stats |-> Bump(stats, "misses", 1)]
    ELSE [ret |-> c[key].value, cache |-> c, stats |-> Bump(stats, "hits", 1)]

SetKeepingExpiry(c, key, value, ttl, utcnow) ==
    IF key \in DOMAIN c
    THEN [c EXCEPT ![key] = [expires_at |-> @.expires_at, value |-> value]]
    ELSE c @@ (key :> [expires_at |-> utcnow + ttl, value |-> value])

\* _CACHE[key] = (expires_at, value)
SetEntry(c, key, value, ttl, utcnow) ==
    [k \in DOMAIN c \cup {key} |->
        IF k = key THEN [expires_at |-> utcnow + ttl, value |-> value] ELSE c[k]]

\* set(key, value, ttl=ttl)
cache_set(c, stats, key, value, ttl, utcnow) ==
    [cache |-> SetEntry(c, key, value, ttl, utcnow),
     stats |-> Bump(stats, "sets", 1)]

ClearNothing(c) == c

\* _CACHE.clear()
ClearAll(c) == <<>>

\* invalidate(prefix): prefix None clears everything
cache_invalidate(c, stats, prefix) ==
    IF prefix = None
    THEN [cache |-> ClearAll(c), stats |-> Bump(stats, "invalidations", Cardinality(DOMAIN c))]
    ELSE LET keys_to_delete == {key \in DOMAIN c : StartsWith(key, prefix)}
         IN  [cache |-> Without(c, keys_to_delete),
              stats |-> Bump(stats, "invalidations", Cardinality(keys_to_delete))]

\* get_stats()["current_size"]
current_size(c) == Cardinality(DOMAIN c)

\* round(x, 2) of the quotient num / den, in hundredths
RoundHundredths(num, den) == (num * 200 + den) \div (2 * den)

\* get_stats(); hit_rate is given in hundredths of a percent
get_stats(c, stats) ==
    LET total_requests == stats.hits + stats.misses
        hit_rate == IF total_requests > 0
                    THEN RoundHundredths(stats.hits * 100, total_requests)
                    ELSE 0
    IN  [hits |-> stats.hits, misses |-> stats.misses, sets |-> stats.sets,
         invalidations |-> stats.invalidations, hit_rate |-> hit_rate,
         total_requests |-> total_requests, current_size |-> current_size(c)]

reset_stats_clearing(c, stats) == [cache |-> <<>>, stats |-> EmptyStats]

\* reset_stats()
reset_stats(c, stats) == [cache |-> c, stats |-> EmptyStats]

-----------------------------------------------------------------------------
(* The cache driven by a sequence of calls and clock advances *)

CacheKeys == { <<"a", ":", "1">>, <<"a", ":", "2">>, <<"b", ":", "1">> }
Prefixes == { <<"a", ":">>, <<"a", ":", "1">>, <<"b">> }
Values == {"v1", "v2"}
Ttls == {30, 60}
NonPositiveTtls == {0}
\* the (value, ttl) pairs passed to set
SetInputs == {<<"v1", 60>>, <<"v2", 30>>, <<"v1", 0>>}
CacheAdvances == {30}

InitCache ==
    /\ now = 0
    /\ last = [op |-> "init"]
    /\ rate_limit_store = <<>>
    /\ limits = [e \in Endpoints |-> 1]
    /\ rlHist = <<>>
    /\ running = Idle
    /\ pc = <<>>
    /\ request_counts = <<>>
    /\ cache = <<>>
    /\ cache_stats = EmptyStats
    /\ lastSet = [k \in CacheKeys |-> NoSet]
    /\ cacheCalls = 0
    /\ callCounts = NoCalls
    /\ AppUnused

Get(key) ==
    /\ cacheCalls < MaxCacheCalls
    /\ LET r == cache_get(cache, cache_stats, key, now)
       IN  /\ cache' = r.cache
           /\ cache_stats' = r.stats
           /\ last' = [op |-> "get", key |-> key, ret |-> r.ret]
    /\ cacheCalls' = cacheCalls + 1
    /\ callCounts' = [callCounts EXCEPT !.gets = @ + 1]
    /\ UNCHANGED <<now, lastSet, outsideCache>>

\* set(key, value, ttl=ttl)
Set(key, value, ttl) ==
    /\ cacheCalls < MaxCacheCalls
    /\ LET r == cache_set(cache, cache_stats, key, value, ttl, now)
       IN  /\ cache' = r.cache
           /\ cache_stats' = r.stats
    /\ last' = [op |-> "set", key |-> key, value |-> value, ttl |-> ttl,
                replaced |-> IF key \in DOMAIN cache THEN cache[key].expires_at
                             ELSE -1]
    /\ lastSet' = [lastSet EXCEPT ![key] = [t |-> now, ttl |-> ttl, value |-> value]]
    /\ cacheCalls' = cacheCalls + 1
    /\ callCounts' = [callCounts EXCEPT !.sets = @ + 1]
    /\ UNCHANGED <<now, outsideCache>>

\* prefix is a string
Invalidate(prefix) ==
    /\ cacheCalls < MaxCacheCalls
    /\ LET r == cache_invalidate(cache, cache_stats, prefix)
       IN  /\ cache' = r.cache
           /\ cache_stats' = r.stats
    /\ last' = [op |-> "invalidate", prefix |-> prefix]
    /\ lastSet' = [k \in CacheKeys |->
                      IF StartsWith(k, prefix) THEN NoSet ELSE lastSet[k]]
    /\ cacheCalls' = cacheCalls + 1
    /\ callCounts' = [callCounts EXCEPT !.removed =
                         @ + Cardinality(DOMAIN cache) - Cardinality(DOMAIN cache')]
    /\ UNCHANGED <<now, outsideCache>>

\* invalidate() with no prefix
InvalidateAll ==
    /\ cacheCalls < MaxCacheCalls
    /\ LET r == cache_invalidate(cache, cache_stats, None)
       IN  /\ cache' = r.cache
           /\ cache_stats' = r.stats
    /\ last' = [op |-> "invalidate_all", held |-> Cardinality(DOMAIN cache),
                expired |-> Cardinality({k \in DOMAIN cache :
                                            Expired(cache[k].expires_at, now)})]
    /\ lastSet' = [k \in CacheKeys |-> NoSet]
    /\ cacheCalls' = cacheCalls + 1
    /\ callCounts' = [callCounts EXCEPT !.removed =
                         @ + Cardinality(DOMAIN cache) - Cardinality(DOMAIN cache')]
    /\ UNCHANGED <<now, outsideCache>>

\* reset_stats()
ResetStats ==
    /\ cacheCalls < MaxCacheCalls
    /\ LET r == reset_stats(cache, cache_stats)
       IN  /\ cache' = r.cache
           /\ cache_stats' = r.stats
    /\ last' = [op |-> "reset_stats"]
    /\ cacheCalls' = cacheCalls + 1
    /\ callCounts' = NoCalls
    /\ UNCHANGED <<now, lastSet, outsideCache>>

TickCache ==
    \E d \in CacheAdvances :
        /\ now + d <= MaxTime
        /\ now' = now + d
        /\ last' = [op |-> "tick"]
        /\ UNCHANGED <<cacheVars, outsideCache>>

NextCache ==
    \/ \E k \in CacheKeys : Get(k)
    \/ \E k \in CacheKeys, i \in SetInputs : Set(k, i[1], i[2])
    \/ \E p \in Prefixes : Invalidate(p)
    \/ InvalidateAll
    \/ ResetStats
    \/ TickCache

SpecCache == InitCache /\ [][NextCache]_vars

-----------------------------------------------------------------------------
(* The limiter driven by a sequence of calls and clock advances *)

InitRL ==
    /\ now = 0
    /\ last = [op |-> "init"]
    /\ rate_limit_store = <<>>
    /\ limits \in [Endpoints -> 1..MaxLimit]
    /\ rlHist = <<>>
    /\ running = Idle
    /\ pc = <<>>
    /\ request_counts = <<>>
    /\ CacheUnused
    /\ AppUnused

CheckRateLimit(endpoint, client_ip) ==
    /\ Len(rlHist) < MaxCalls
    /\ LET r == check_rate_limit(rate_limit_store, endpoint, client_ip,
                                 limits[endpoint], now)
           key == RateLimitKey(endpoint, client_ip)
       IN  /\ rate_limit_store' = r.store
           /\ last' = [op |-> "check_rate_limit", endpoint |-> endpoint,
                       client_ip |-> client_ip, ok |-> r.ok]
           /\ rlHist' = Append(rlHist, [key |-> key, t |-> now, ok |-> r.ok,
                                        count |-> StoredCount(r.store, key)])
    /\ UNCHANGED <<now, limits, outsideRL>>

\* the limits passed for a client that could not be identified
UnknownLimits == {0, 1}

\* a call for a client that could not be identified
CheckUnknownClient(endpoint, client_ip, requests_per_minute) ==
    /\ LET r == check_rate_limit(rate_limit_store, endpoint, client_ip,
                                 requests_per_minute, now)
       IN  /\ rate_limit_store' = r.store
           /\ last' = [op |-> "check_rate_limit", endpoint |-> endpoint,
                       client_ip |-> client_ip, ok |-> r.ok,
                       limit |-> requests_per_minute]
    /\ UNCHANGED <<now, limits, rlHist, outsideRL>>

TickRL ==
    \E d \in Advances :
        /\ now + d <= MaxTime
        /\ now' = now + d
        /\ last' = [op |-> "tick"]
        /\ UNCHANGED <<rlVars, outsideRL>>

NextRL ==
    \/ \E e \in Endpoints, c \in ClientIps : CheckRateLimit(e, c)
    \/ \E e \in Endpoints, c \in UnknownClients, l \in UnknownLimits :
          CheckUnknownClient(e, c, l)
    \/ TickRL

SpecRL == InitRL /\ [][NextRL]_vars

-----------------------------------------------------------------------------
(* POST /auth/login (app/main.py) served by coroutines of one event loop.   *)
(* A coroutine keeps the loop until it reaches an await; check_rate_limit  *)
(* is a plain function, executed here statement by statement.              *)

Reqs == 1..MaxReq
LoginEndpoint == "/auth/login"
LoginClient == CHOOSE c \in ClientIps : TRUE

AwaitsAtWithAsyncStore(p) ==
    p \in {"ready", "counted", "lookup", "rejected", "done", "absent"}

\* the program points at which a handler coroutine is suspended: before it is
\* first run, at `await crud.get_user_by_username`, and once it has ended
AwaitsAt(p) == p \in {"ready", "lookup", "rejected", "done", "absent"}

CanRun(r) == running = r \/ (running = Idle /\ AwaitsAt(pc[r]))

Goto(r, p) ==
    /\ pc' = [pc EXCEPT ![r] = p]
    /\ running' = IF AwaitsAt(p) THEN Idle ELSE r

InitLogin ==
    /\ now = 0
    /\ last = [op |-> "init"]
    /\ rate_limit_store = <<>>
    /\ limits \in [Endpoints -> 1..MaxLimit]
    /\ rlHist = <<>>
    /\ running = Idle
    /\ \E n \in 1..MaxReq : pc = [r \in Reqs |-> IF r <= n THEN "ready" ELSE "absent"]
    /\ request_counts = [r \in Reqs |-> 0]
    /\ CacheUnused
    /\ AppUnused

\* the handler is entered: client_ip is read, check_rate_limit is called
LoginStart(r) ==
    /\ pc[r] = "ready" /\ CanRun(r)
    /\ Goto(r, "clean")
    /\ UNCHANGED <<now, last, rlVars, request_counts, outsideLogin>>

\* rate_limit.py:25-30
LoginClean(r) ==
    /\ pc[r] = "clean" /\ CanRun(r)
    /\ rate_limit_store' =
           CleanOld(rate_limit_store, RateLimitKey(LoginEndpoint, LoginClient), now)
    /\ Goto(r, "count")
    /\ UNCHANGED <<now, last, limits, rlHist, request_counts, outsideLogin>>

\* rate_limit.py:33
LoginCount(r) ==
    /\ pc[r] = "count" /\ CanRun(r)
    /\ LET key == RateLimitKey(LoginEndpoint, LoginClient)
           st == DefaultList(rate_limit_store, key)
       IN  /\ rate_limit_store' = st
           /\ request_counts' = [request_counts EXCEPT ![r] = SumCounts(st[key])]
    /\ Goto(r, "counted")
    /\ UNCHANGED <<now, last, limits, rlHist, outsideLogin>>

\* rate_limit.py:35-36 and main.py:288-289: over the limit, 429
LoginReject(r) ==
    /\ pc[r] = "counted" /\ CanRun(r)
    /\ OverLimit(request_counts[r], limits[LoginEndpoint])
    /\ rate_limit_store' =
           Reject(rate_limit_store, RateLimitKey(LoginEndpoint, LoginClient),
                  now, request_counts[r])
    /\ Goto(r, "rejected")
    /\ UNCHANGED <<now, last, limits, rlHist, request_counts, outsideLogin>>

\* rate_limit.py:38-45: admitted; the handler goes on to await the user lookup
LoginAdmit(r) ==
    /\ pc[r] = "counted" /\ CanRun(r)
    /\ ~OverLimit(request_counts[r], limits[LoginEndpoint])
    /\ rate_limit_store' =
           AddRequest(rate_limit_store, RateLimitKey(LoginEndpoint, LoginClient),
                      now, request_counts[r])
    /\ Goto(r, "lookup")
    /\ UNCHANGED <<now, last, limits, rlHist, request_counts, outsideLogin>>

\* main.py:291-324: the lookup answers, the handler responds 401 or 200
LoginRespond(r) ==
    /\ pc[r] = "lookup" /\ CanRun(r)
    /\ Goto(r, "done")
    /\ UNCHANGED <<now, last, rlVars, request_counts, outsideLogin>>

NextLogin ==
    \E r \in Reqs :
        \/ LoginStart(r)
        \/ LoginClean(r)
        \/ LoginCount(r)
        \/ LoginReject(r)
        \/ LoginAdmit(r)
        \/ LoginRespond(r)

SpecLogin == InitLogin /\ [][NextLogin]_vars

-----------------------------------------------------------------------------
(* Claims about the limiter, over the history of calls *)

KnownKeys == {RateLimitKey(e, c) : e \in Endpoints, c \in ClientIps}

LimitOfKey(key) ==
    limits[CHOOSE e \in Endpoints : \E c \in ClientIps : RateLimitKey(e, c) = key]

\* the calls of the history made for a key
CallsOf(key) == {i \in 1..Len(rlHist) : rlHist[i].key = key}

\* the calls for a key that returned true with a timestamp in (lo, hi]
AdmittedIn(key, lo, hi) ==
    {i \in CallsOf(key) : rlHist[i].ok /\ lo < rlHist[i].t /\ rlHist[i].t <= hi}

\* the instants at which some call returned true: the admitted calls of any
\* interval (t-60, t] all lie in the interval that ends at the latest of them
AdmissionTimes == {rlHist[i].t : i \in {j \in 1..Len(rlHist) : rlHist[j].ok}}

\* C1: for a pair checked with a fixed limit L >= 1, the calls that returned
\* true with a timestamp in any interval (t-60, t] are never more than L.
C1_AdmittedPerWindowBounded ==
    \A key \in KnownKeys : \A t \in AdmissionTimes :
        LimitOfKey(key) >= 1 =>
            Cardinality(AdmittedIn(key, t - 60, t)) <= LimitOfKey(key)

\* a pair of limit 2 with two admitted calls and a rejected one in the last
\* 60 seconds, after an earlier admitted call that has left the window
C1_Witness ==
    \E key \in KnownKeys :
        /\ LimitOfKey(key) = 2
        /\ Cardinality(AdmittedIn(key, now - 60, now)) = 2
        /\ \E i \in CallsOf(key) : ~rlHist[i].ok /\ rlHist[i].t > now - 60
        /\ \E i \in CallsOf(key) : rlHist[i].ok /\ rlHist[i].t <= now - 60

\* C2: a check for a known client returns true if and only if fewer than
\* `limit` earlier calls for that pair returned true during (now-60, now].
C2_CountsTrailingWindow ==
    \A i \in 1..Len(rlHist) :
        LET key == rlHist[i].key
            before == {j \in AdmittedIn(key, rlHist[i].t - 60, rlHist[i].t) : j < i}
        IN  rlHist[i].ok <=> (Cardinality(before) < LimitOfKey(key))

\* the position of call i among the calls made for its key
IndexInKey(i) == Cardinality({j \in CallsOf(rlHist[i].key) : j <= i})

FirstCallOf(key) == CHOOSE i \in CallsOf(key) : \A j \in CallsOf(key) : i <= j

Min(a, b) == IF a <= b THEN a ELSE b

\* C3: from an empty limiter, of the checks made for a pair less than 60
\* seconds after its first check, the first L return true and every later one
\* returns false, and the stored count stays at L after each rejected check.
C3_BurstBoundary ==
    \A i \in 1..Len(rlHist) :
        LET key == rlHist[i].key
            L == LimitOfKey(key)
        IN  rlHist[i].t < rlHist[FirstCallOf(key)].t + 60 =>
                /\ rlHist[i].ok <=> (IndexInKey(i) <= L)
                /\ rlHist[i].count = Min(IndexInKey(i), L)

\* limit 2 and four checks in the first window: two admitted, then two rejected
C3_Witness ==
    \E key \in KnownKeys :
        /\ LimitOfKey(key) = 2
        /\ Cardinality(CallsOf(key)) = 4
        /\ \A i \in CallsOf(key) : rlHist[i].t < rlHist[FirstCallOf(key)].t + 60
        /\ Cardinality({i \in CallsOf(key) : ~rlHist[i].ok /\ rlHist[i].count = 2}) = 2

\* the time of the most recent admitted call for call i's key before call i
\* (-1 when there is none)
RECURSIVE LastAdmittedBefore(_, _)
LastAdmittedBefore(key, i) ==
    IF i <= 1 THEN -1
    ELSE IF rlHist[i - 1].key = key /\ rlHist[i - 1].ok THEN rlHist[i - 1].t
    ELSE LastAdmittedBefore(key, i - 1)

\* C4: a check issued more than 60 seconds after the pair's most recent
\* admitted request returns true and restarts the count at 1, whatever
\* rejected checks were made in between.
C4_NoLockout ==
    \A i \in 1..Len(rlHist) :
        LET a == LastAdmittedBefore(rlHist[i].key, i)
        IN  (a >= 0 /\ rlHist[i].t > a + 60) =>
                (rlHist[i].ok /\ rlHist[i].count = 1)

\* an exhausted pair, rejected in between, admitted again with count 1
C4_Witness ==
    \E i \in 1..Len(rlHist) :
        LET a == LastAdmittedBefore(rlHist[i].key, i)
        IN  /\ a >= 0 /\ rlHist[i].t > a + 60
            /\ rlHist[i].ok /\ rlHist[i].count = 1
            /\ \E j \in 1..(i - 1) :
                   rlHist[j].key = rlHist[i].key /\ ~rlHist[j].ok /\ rlHist[j].t >= a

-----------------------------------------------------------------------------
(* Claims about concurrent login requests *)

LoginRequests == {r \in Reqs : pc[r] # "absent"}
LoginChecked == {r \in Reqs : pc[r] \in {"lookup", "done", "rejected"}}
LoginAdmitted == {r \in Reqs : pc[r] \in {"lookup", "done"}}

\* C5: of N concurrent check_rate_limit calls for one pair with limit K,
\* starting from an empty window, exactly min(N, K) return true, in every
\* interleaving of the handler coroutines: at any moment the admitted calls
\* are min(calls that have returned, K).
C5_ConcurrentAdmissions ==
    /\ Cardinality(LoginAdmitted) =
           Min(Cardinality(LoginChecked), limits[LoginEndpoint])
    /\ LoginChecked = LoginRequests =>
           Cardinality(LoginAdmitted) =
               Min(Cardinality(LoginRequests), limits[LoginEndpoint])

\* three requests in flight with limit 2: all have been checked, two were
\* admitted and one rejected, and an admitted one is still awaiting its lookup
\* while a later-started one has already been answered
C5_Witness ==
    /\ Cardinality(LoginRequests) = 3
    /\ limits[LoginEndpoint] = 2
    /\ LoginChecked = LoginRequests
    /\ Cardinality(LoginAdmitted) = 2
    /\ \E r \in Reqs : pc[r] = "lookup"
    /\ \E r \in Reqs : pc[r] = "rejected"

-----------------------------------------------------------------------------
(* Claims about the cache *)

\* the step is a call of get(key)
IsGetStep(key) ==
    cacheCalls' = cacheCalls + 1 /\ last'.op = "get" /\ last'.key = key

\* C6: after set(key, value, ttl) with ttl > 0 and no later set or invalidate
\* of that key, a get(key) strictly before set-time + ttl returns value and
\* records a hit; a get(key) at or after set-time + ttl returns absent,
\* records a miss and leaves no entry for the key (current_size excludes it).
C6_TtlExpiry ==
    [][\A key \in CacheKeys :
          (IsGetStep(key) /\ lastSet[key] # NoSet /\ lastSet[key].ttl > 0) =>
              IF now < lastSet[key].t + lastSet[key].ttl
              THEN /\ last'.ret = lastSet[key].value
                   /\ cache_stats'.hits = cache_stats.hits + 1
                   /\ cache_stats'.misses = cache_stats.misses
              ELSE /\ last'.ret = None
                   /\ cache_stats'.misses = cache_stats.misses + 1
                   /\ cache_stats'.hits = cache_stats.hits
                   /\ key \notin DOMAIN cache'
                   /\ current_size(cache') = Cardinality(DOMAIN cache \ {key})
      ]_vars

\* a key was set, read with a hit, and read again once its ttl had elapsed:
\* the second read missed and the entry is gone
C6_Witness ==
    /\ last.op = "get" /\ last.ret = None
    /\ lastSet[last.key] # NoSet /\ lastSet[last.key].ttl > 0
    /\ now >= lastSet[last.key].t + lastSet[last.key].ttl
    /\ cache_stats.hits = 1 /\ cache_stats.misses = 1
    /\ last.key \notin DOMAIN cache

\* prefix is the beginning of key, character by character
HasPrefix(key, prefix) ==
    Len(prefix) <= Len(key) /\ \A i \in 1..Len(prefix) : key[i] = prefix[i]

\* the step is a call of invalidate(prefix)
IsInvalidateStep(prefix) ==
    cacheCalls' = cacheCalls + 1 /\ last'.op = "invalidate" /\ last'.prefix = prefix

\* C7: invalidate(prefix) removes exactly the entries whose key starts with
\* prefix; every other entry keeps its value and expiry, and the invalidation
\* counter grows by the number of entries removed (no other counter moves).
C7_PrefixInvalidation ==
    [][\A prefix \in Prefixes :
          IsInvalidateStep(prefix) =>
              /\ DOMAIN cache' = {k \in DOMAIN cache : ~HasPrefix(k, prefix)}
              /\ \A k \in DOMAIN cache' : cache'[k] = cache[k]
              /\ cache_stats' =
                     [cache_stats EXCEPT !.invalidations =
                         @ + Cardinality({k \in DOMAIN cache : HasPrefix(k, prefix)})]
      ]_vars

\* "a:1", "a:2" and "b:1" were set and invalidate("a:") has just removed the
\* first two and left "b:1"
C7_Witness ==
    /\ last.op = "invalidate" /\ last.prefix = <<"a", ":">>
    /\ cache_stats.sets = 3 /\ cache_stats.invalidations = 2
    /\ DOMAIN cache = { <<"b", ":", "1">> }
    /\ cache[<<"b", ":", "1">>].value = lastSet[<<"b", ":", "1">>].value

-----------------------------------------------------------------------------
(* app/models.py and app/crud.py: rows, and the crud functions as functions *)
(* of the rows a session sees.  An absent id (None) is written NoId.        *)

NoId == 0
UnsetId == -1
UnsetName == "<unset>"

UserIds == {1, 10}

Max(S) == CHOOSE x \in S : \A y \in S : y <= x

\* the id an INSERT receives
NextId(rows) == IF DOMAIN rows = {} THEN 1 ELSE Max(DOMAIN rows) + 1

\* str.strip() and str.lower() on the names explored
Strip(name) == CASE name = " a" -> "a" [] OTHER -> name
Lower(name) == CASE name = "A" -> "a" [] name = "B" -> "b" [] name = "C" -> "c"
                 [] OTHER -> name

UserCategories(dbv, user_id) ==
    {c \in DOMAIN dbv.categories : dbv.categories[c].user_id = user_id}

UserExpenses(dbv, user_id) ==
    {x \in DOMAIN dbv.expenses : dbv.expenses[x].user_id = user_id}

\* _load_category_map(session, user_id): id -> <<name, parent_id>>
load_category_map(dbv, user_id) ==
    [c \in UserCategories(dbv, user_id) |->
        <<dbv.categories[c].name, dbv.categories[c].parent_id>>]

\* _build_category_path_from_map: the names from the category up to its root
RECURSIVE PathParts(_, _, _)
PathParts(current_id, category_map, visited) ==
    IF current_id = NoId \/ current_id \in visited THEN <<>>
    ELSE IF current_id \notin DOMAIN category_map THEN <<>>
    ELSE <<category_map[current_id][1]>> \o
         PathParts(category_map[current_id][2], category_map,
                   visited \cup {current_id})

\* " / ".join(reversed(parts))
RECURSIVE JoinReversed(_)
JoinReversed(parts) ==
    IF Len(parts) = 1 THEN parts[1]
    ELSE JoinReversed(Tail(parts)) \o " / " \o parts[1]

build_category_path_from_map(category_id, category_map) ==
    IF category_id = NoId THEN "Non classé"
    ELSE LET parts == PathParts(category_id, category_map, {})
         IN  IF parts = <<>> THEN "Non classé" ELSE JoinReversed(parts)

NoOp == [type |-> "none"]

\* crud.create_category
crud_create_category(dbv, name, parent_id, user_id) ==
    LET category_name == Lower(Strip(name))
        all_existing == {c \in UserCategories(dbv, user_id) :
                            dbv.categories[c].parent_id = parent_id}
    IN  IF \E c \in all_existing :
               Lower(Strip(dbv.categories[c].name)) = category_name
        THEN [status |-> 409, op |-> NoOp]
        ELSE [status |-> 201,
              op |-> [type |-> "insert_category", id |-> NextId(dbv.categories),
                      row |-> [name |-> Strip(name), parent_id |-> parent_id,
                               user_id |-> user_id]]]

\* crud.update_category: payload fields left unset are UnsetName, UnsetId
crud_update_category(dbv, category_id, name, parent_id, user_id) ==
    IF category_id \notin DOMAIN dbv.categories
       \/ dbv.categories[category_id].user_id # user_id
    THEN [status |-> 404, op |-> NoOp]
    ELSE LET category == dbv.categories[category_id]
             data_parent == IF parent_id = category_id THEN NoId ELSE parent_id
             new_parent_id == IF parent_id = UnsetId THEN category.parent_id
                              ELSE data_parent
             existing == {c \in UserCategories(dbv, user_id) :
                             /\ dbv.categories[c].name = name
                             /\ c # category_id
                             /\ dbv.categories[c].parent_id = new_parent_id}
         IN  IF name # UnsetName /\ existing # {}
             THEN [status |-> 409, op |-> NoOp]
             ELSE [status |-> 200,
                   op |-> [type |-> "update_category", id |-> category_id,
                           row |-> [name |-> IF name = UnsetName THEN category.name
                                             ELSE name,
                                    parent_id |-> new_parent_id,
                                    user_id |-> category.user_id]]]

\* crud.delete_category
crud_delete_category(dbv, category_id, user_id) ==
    IF category_id \notin DOMAIN dbv.categories
       \/ dbv.categories[category_id].user_id # user_id
    THEN [status |-> 404, op |-> NoOp]
    ELSE [status |-> 204, op |-> [type |-> "delete_category", id |-> category_id]]

\* crud.create_expense: the category named by the payload is not looked up
crud_create_expense(dbv, category_id, amount, user_id) ==
    [status |-> 201,
     op |-> [type |-> "insert_expense", id |-> NextId(dbv.expenses),
             row |-> [category_id |-> category_id, user_id |-> user_id,
                      amount |-> amount]]]

\* crud.update_expense: payload fields left unset are UnsetId
crud_update_expense(dbv, expense_id, category_id, amount, user_id) ==
    IF expense_id \notin DOMAIN dbv.expenses
       \/ dbv.expenses[expense_id].user_id # user_id
    THEN [status |-> 404, op |-> NoOp]
    ELSE IF /\ category_id \notin {UnsetId, NoId}
            /\ \/ category_id \notin DOMAIN dbv.categories
               \/ dbv.categories[category_id].user_id # user_id
    THEN [status |-> 400, op |-> NoOp]
    ELSE LET expense == dbv.expenses[expense_id]
         IN  [status |-> 200,
              op |-> [type |-> "update_expense", id |-> expense_id,
                      row |-> [category_id |-> IF category_id = UnsetId
                                               THEN expense.category_id
                                               ELSE category_id,
                               user_id |-> expense.user_id,
                               amount |-> IF amount = UnsetId THEN expense.amount
                                          ELSE amount]]]

crud_delete_expense_of_any_user(dbv, expense_id, user_id) ==
    IF expense_id \notin DOMAIN dbv.expenses
    THEN [status |-> 404, op |-> NoOp]
    ELSE [status |-> 204, op |-> [type |-> "delete_expense", id |-> expense_id]]

\* crud.delete_expense
crud_delete_expense(dbv, expense_id, user_id) ==
    IF expense_id \notin DOMAIN dbv.expenses
       \/ dbv.expenses[expense_id].user_id # user_id
    THEN [status |-> 404, op |-> NoOp]
    ELSE [status |-> 204, op |-> [type |-> "delete_expense", id |-> expense_id]]

\* crud.get_category: the row selected by id and user_id
crud_get_category(dbv, category_id, user_id) ==
    IF category_id \notin DOMAIN dbv.categories
       \/ dbv.categories[category_id].user_id # user_id
    THEN [status |-> 404, items |-> {}]
    ELSE [status |-> 200,
          items |-> {[id |-> category_id, name |-> dbv.categories[category_id].name,
                      parent_id |-> dbv.categories[category_id].parent_id]}]

\* crud.get_expense: the row selected by id and user_id
crud_get_expense(dbv, expense_id, user_id) ==
    IF expense_id \notin DOMAIN dbv.expenses
       \/ dbv.expenses[expense_id].user_id # user_id
    THEN [status |-> 404, items |-> {}]
    ELSE [status |-> 200,
          items |-> {[id |-> expense_id,
                      category_id |-> dbv.expenses[expense_id].category_id,
                      amount |-> dbv.expenses[expense_id].amount]}]

\* the category and the categories below it (relationship children, cascade)
RECURSIVE Subtree(_, _, _)
Subtree(categories, ids, seen) ==
    LET below == {c \in DOMAIN categories : categories[c].parent_id \in ids} \ seen
    IN  IF below = {} THEN seen
        ELSE Subtree(categories, below, seen \cup below)

\* the rows once a session's pending change is written
Apply(op, dbv) ==
    CASE op.type = "none" -> dbv
      [] op.type = "insert_category" ->
            [dbv EXCEPT !.categories = (op.id :> op.row) @@ @]
      [] op.type = "update_category" ->
            [dbv EXCEPT !.categories = (op.id :> op.row) @@ @]
      [] op.type = "delete_category" ->
            LET gone == Subtree(dbv.categories, {op.id}, {op.id})
            IN  [categories |-> [c \in DOMAIN dbv.categories \ gone |->
                                    dbv.categories[c]],
                 expenses |-> [x \in {y \in DOMAIN dbv.expenses :
                                         dbv.expenses[y].category_id \notin gone} |->
                                  dbv.expenses[x]]]
      [] op.type = "insert_expense" ->
            [dbv EXCEPT !.expenses = (op.id :> op.row) @@ @]
      [] op.type = "update_expense" ->
            [dbv EXCEPT !.expenses = (op.id :> op.row) @@ @]
      [] op.type = "delete_expense" ->
            [dbv EXCEPT !.expenses = [x \in DOMAIN @ \ {op.id} |-> @[x]]]

\* crud.list_categories as serialised by PaginatedCategories
list_categories_value(dbv, user_id) ==
    LET category_map == load_category_map(dbv, user_id)
    IN  [items |-> {[id |-> c, name |-> dbv.categories[c].name,
                     parent_id |-> dbv.categories[c].parent_id,
                     full_path |-> build_category_path_from_map(c, category_map)] :
                    c \in UserCategories(dbv, user_id)}]

\* crud.search_expenses, the rows selected (category_id NoId: no filter); the
\* requests explored pass no start_date and no end_date, and one page holds
\* every row
search_expenses_rows(dbv, user_id, category_id) ==
    {[id |-> x, category_id |-> dbv.expenses[x].category_id,
      amount |-> dbv.expenses[x].amount] :
     x \in {y \in UserExpenses(dbv, user_id) :
               category_id = NoId \/ dbv.expenses[y].category_id = category_id}}

\* crud.search_expenses, category_path set on each row from the category map
search_expenses_value(rows, total, category_map) ==
    [total |-> total,
     items |-> {[id |-> x.id, category_id |-> x.category_id, amount |-> x.amount,
                 category_path |->
                     build_category_path_from_map(x.category_id, category_map)] :
                x \in rows}]

RECURSIVE SumAmounts(_, _)
SumAmounts(expenses, ids) ==
    IF ids = {} THEN 0
    ELSE LET x == CHOOSE y \in ids : TRUE
         IN  expenses[x].amount + SumAmounts(expenses, ids \ {x})

\* crud.totals_by_period, the totals selected per category of the user; every
\* expense explored lies in the default period
totals_rows(dbv, user_id, category_id) ==
    {<<c, SumAmounts(dbv.expenses,
                     {x \in DOMAIN dbv.expenses : dbv.expenses[x].category_id = c})>> :
     c \in {d \in UserCategories(dbv, user_id) : category_id = NoId \/ d = category_id}}

\* crud.totals_by_period, category_totals keyed by category path
totals_value(rows, category_map) ==
    [items |-> {<<build_category_path_from_map(t[1], category_map), t[2]>> : t \in rows}]

-----------------------------------------------------------------------------
(* app/main.py: the cache keys and prefixes the handlers compose.  A key is *)
(* the sequence of its characters.                                          *)

Digits == <<"0", "1", "2", "3", "4", "5", "6", "7", "8", "9">>

\* str(n) for n >= 0
RECURSIVE Dec(_)
Dec(n) == IF n < 10 THEN <<Digits[n + 1]>> ELSE Dec(n \div 10) \o <<Digits[(n % 10) + 1]>>

\* str(id) where the id may be None
IdStr(id) == IF id = NoId THEN <<"N", "o", "n", "e">> ELSE Dec(id)

Colon == <<":">>
StrCategories == <<"c", "a", "t", "e", "g", "o", "r", "i", "e", "s">>
StrExpenses == <<"e", "x", "p", "e", "n", "s", "e", "s">>
StrSummary == <<"s", "u", "m", "m", "a", "r", "y">>

DefaultPage == 1
CategoriesPerPage == 20
ExpensesPerPage == 50
CategoriesTtl == 60
ExpensesTtl == 30
SummaryTtl == 60

\* f"categories:{current_user.id}"
CategoriesPrefix(user_id) == StrCategories \o Colon \o Dec(user_id)
\* f"expenses:{current_user.id}"
ExpensesPrefix(user_id) == StrExpenses \o Colon \o Dec(user_id)
\* f"summary:{current_user.id}"
SummaryPrefix(user_id) == StrSummary \o Colon \o Dec(user_id)

\* f"categories:{current_user.id}:{page}:{per_page}"
CategoriesKey(user_id) ==
    CategoriesPrefix(user_id) \o Colon \o Dec(DefaultPage) \o Colon \o Dec(CategoriesPerPage)

\* f"expenses:{current_user.id}:{category_id}:{start_date}:{end_date}:{page}:{per_page}"
ExpensesKey(user_id, category_id) ==
    ExpensesPrefix(user_id) \o Colon \o IdStr(category_id) \o Colon \o IdStr(NoId)
        \o Colon \o IdStr(NoId) \o Colon \o Dec(DefaultPage) \o Colon \o Dec(ExpensesPerPage)

\* f"summary:{current_user.id}:{start_date}:{end_date}:{category_id}"
SummaryKey(user_id, category_id) ==
    SummaryPrefix(user_id) \o Colon \o IdStr(NoId) \o Colon \o IdStr(NoId)
        \o Colon \o IdStr(category_id)

CategoryWrites == {"create_category", "update_category", "delete_category"}
ExpenseWrites == {"create_expense", "update_expense", "delete_expense"}
Writes == CategoryWrites \cup ExpenseWrites
Reads == {"list_categories", "search_expenses", "get_summary"}

InvalidationPrefixesWithoutSummary(kind, user_id) ==
    IF kind \in CategoryWrites THEN <<CategoriesPrefix(user_id)>>
    ELSE <<ExpensesPrefix(user_id)>>

\* the cache_invalidate calls of a mutating handler, in order
InvalidationPrefixes(kind, user_id) ==
    IF kind \in CategoryWrites
    THEN <<CategoriesPrefix(user_id), SummaryPrefix(user_id)>>
    ELSE <<ExpensesPrefix(user_id), SummaryPrefix(user_id)>>

\* the key a read handler composes
CacheKeyOf(kind, user_id, category_id) ==
    CASE kind = "list_categories" -> CategoriesKey(user_id)
      [] kind = "search_expenses" -> ExpensesKey(user_id, category_id)
      [] kind = "get_summary" -> SummaryKey(user_id, category_id)

TtlOfDefault(kind) == DEFAULT_TTL

\* the ttl a read handler passes to cache_set
TtlOf(kind) ==
    CASE kind = "list_categories" -> CategoriesTtl
      [] kind = "search_expenses" -> ExpensesTtl
      [] kind = "get_summary" -> SummaryTtl

\* cache_get returns the stored value (always truthy here), not None
Cached(c, key, utcnow) == key \in DOMAIN c /\ ~Expired(c[key].expires_at, utcnow)

-----------------------------------------------------------------------------
(* app/main.py and app/database.py: the category, expense and summary       *)
(* handlers, one action per stretch between two awaits.  Each request has   *)
(* its own session (get_session); a statement reads the committed rows, a   *)
(* flush holds the backend's write lock until the session commits.          *)

AppAdvances == {31}
MaxAppTime == 31

SeededDb ==
    [categories |-> (1 :> [name |-> "A", parent_id |-> NoId, user_id |-> 1])
                 @@ (2 :> [name |-> "B", parent_id |-> 1, user_id |-> 1])
                 @@ (3 :> [name |-> "A", parent_id |-> NoId, user_id |-> 10]),
     expenses |-> (1 :> [category_id |-> 2, user_id |-> 1, amount |-> 5])]

\* the request inputs explored
NewNames == {"B", " a"}
UpdatePayloads == {[name |-> "C", parent_id |-> UnsetId],
                   [name |-> UnsetName, parent_id |-> NoId]}
TargetCategoryIds == {2}
TargetExpenseIds == {1}
NewExpenseCategoryIds == {1}
ExpenseCategoryIds == {1, 3}
Amounts == {7}
CategoryFilters == {NoId}

NoArgs == [id |-> UnsetId, name |-> UnsetName, parent_id |-> UnsetId,
           category_id |-> UnsetId, amount |-> UnsetId]

NoValue == [items |-> {}]

NewRequest(kind, user_id, args) ==
    [kind |-> kind, user_id |-> user_id, args |-> args, pc |-> "start",
     status |-> 0, op |-> NoOp, locked |-> FALSE, rows |-> {}, total |-> 0,
     value |-> NoValue, hit |-> FALSE, fetches |-> 0, invalidated |-> {},
     committed |-> FALSE]

Requests == DOMAIN req

WriteLockHeld == \E r \in Requests : req[r].locked

\* the result of the crud call of a mutating handler on the rows it reads
CrudResult(kind, user_id, args, dbv) ==
    CASE kind = "create_category" ->
            crud_create_category(dbv, args.name, args.parent_id, user_id)
      [] kind = "update_category" ->
            crud_update_category(dbv, args.id, args.name, args.parent_id, user_id)
      [] kind = "delete_category" -> crud_delete_category(dbv, args.id, user_id)
      [] kind = "create_expense" ->
            crud_create_expense(dbv, args.category_id, args.amount, user_id)
      [] kind = "update_expense" ->
            crud_update_expense(dbv, args.id, args.category_id, args.amount, user_id)
      [] kind = "delete_expense" -> crud_delete_expense(dbv, args.id, user_id)

\* session.delete() marks the row; the other mutations are flushed by crud
Flushes(kind) == kind \notin {"delete_category", "delete_expense"}

\* a mutating request arrives and its crud call reads the rows it checks;
\* a refused call (None, False or an exception) is answered with the error
\* and get_session rolls back
Mutate(kind, user_id, args) ==
    /\ Len(req) < MaxAppReq
    /\ LET res == CrudResult(kind, user_id, args, db)
           r == NewRequest(kind, user_id, args)
       IN  req' = Append(req,
                [r EXCEPT !.status = res.status, !.op = res.op,
                          !.pc = IF res.op = NoOp THEN "done"
                                 ELSE IF Flushes(kind) THEN "checked"
                                 ELSE "mutated"])
    /\ last' = [op |-> "mutate", req |-> Len(req) + 1]
    /\ UNCHANGED <<now, db, cache, cache_stats, outsideApp>>

\* session.flush(): the INSERT or UPDATE is sent, the row id is assigned
Flush(r) ==
    /\ req[r].pc = "checked"
    /\ ~WriteLockHeld
    /\ LET op == req[r].op
           id == CASE op.type = "insert_category" -> NextId(db.categories)
                   [] op.type = "insert_expense" -> NextId(db.expenses)
                   [] OTHER -> op.id
       IN  req' = [req EXCEPT ![r].pc = "mutated", ![r].locked = TRUE,
                              ![r].op = [op EXCEPT !.id = id]]
    /\ last' = [op |-> "flush", req |-> r]
    /\ UNCHANGED <<now, db, cache, cache_stats, outsideApp>>

\* the set calls whose entries the cache still holds
SetTimes(ls, c) == [k \in DOMAIN c |-> ls[k]]

RECURSIVE InvalidateEach(_, _, _)
InvalidateEach(c, stats, prefixes) ==
    IF prefixes = <<>> THEN [cache |-> c, stats |-> stats]
    ELSE LET res == cache_invalidate(c, stats, Head(prefixes))
         IN  InvalidateEach(res.cache, res.stats, Tail(prefixes))

\* the handler resumes after crud returned: its cache_invalidate calls, then
\* its return, which hands over to get_session's commit
InvalidateCaches(r) ==
    /\ req[r].pc = "mutated"
    /\ LET prefixes == InvalidationPrefixes(req[r].kind, req[r].user_id)
           res == InvalidateEach(cache, cache_stats, prefixes)
       IN  /\ cache' = res.cache
           /\ cache_stats' = res.stats
           /\ req' = [req EXCEPT ![r].pc = "invalidated",
                                 ![r].invalidated = {prefixes[i] : i \in DOMAIN prefixes}]
           /\ last' = [op |-> "invalidate", req |-> r,
                        removed |-> res.stats.invalidations - cache_stats.invalidations]
           /\ lastSet' = SetTimes(lastSet, res.cache)
    /\ UNCHANGED <<now, db, outsideAppCache>>

\* get_session: await session.commit()
Commit(r) ==
    /\ req[r].pc = "invalidated"
    /\ req[r].locked \/ ~WriteLockHeld
    /\ db' = Apply(req[r].op, db)
    /\ req' = [req EXCEPT ![r].pc = "done", ![r].locked = FALSE,
                          ![r].committed = TRUE]
    /\ last' = [op |-> "commit", req |-> r]
    /\ UNCHANGED <<now, cache, cache_stats, outsideApp>>

\* a read request arrives: cache_get(cache_key); a hit is returned
Probe(kind, user_id, category_id) ==
    /\ Len(req) < MaxAppReq
    /\ LET key == CacheKeyOf(kind, user_id, category_id)
           res == cache_get(cache, cache_stats, key, now)
           hit == Cached(cache, key, now)
           r == NewRequest(kind, user_id, [NoArgs EXCEPT !.category_id = category_id])
       IN  /\ cache' = res.cache
           /\ cache_stats' = res.stats
           /\ req' = Append(req,
                   [r EXCEPT !.hit = hit, !.status = IF hit THEN 200 ELSE 0,
                             !.value = IF hit THEN cache[key].value ELSE NoValue,
                             !.pc = IF hit THEN "done"
                                    ELSE IF kind = "search_expenses" THEN "count"
                                    ELSE "fetch"])
    /\ last' = [op |-> "probe", req |-> Len(req) + 1]
    /\ lastSet' = SetTimes(lastSet, cache')
    /\ UNCHANGED <<now, db, outsideAppCache>>

\* crud.search_expenses: session.scalar(count_query)
Count(r) ==
    /\ req[r].pc = "count"
    /\ req' = [req EXCEPT ![r].pc = "fetch", ![r].fetches = @ + 1,
                  ![r].total = Cardinality(search_expenses_rows(
                                   db, req[r].user_id, req[r].args.category_id))]
    /\ last' = [op |-> "count", req |-> r]
    /\ UNCHANGED <<now, db, cache, cache_stats, outsideApp>>

\* the SELECT of the rows: list_categories, search_expenses, totals_by_period
Fetch(r) ==
    /\ req[r].pc = "fetch"
    /\ LET q == req[r]
       IN  req' = [req EXCEPT
                ![r].pc = IF q.kind = "list_categories" THEN "store" ELSE "map",
                ![r].fetches = @ + 1,
                ![r].value = IF q.kind = "list_categories"
                             THEN list_categories_value(db, q.user_id) ELSE @,
                ![r].rows = CASE q.kind = "search_expenses" ->
                                    search_expenses_rows(db, q.user_id, q.args.category_id)
                              [] q.kind = "get_summary" ->
                                    totals_rows(db, q.user_id, q.args.category_id)
                              [] OTHER -> @]
    /\ last' = [op |-> "fetch", req |-> r]
    /\ UNCHANGED <<now, db, cache, cache_stats, outsideApp>>

\* _load_category_map, then the paths built from it
FetchMap(r) ==
    /\ req[r].pc = "map"
    /\ LET q == req[r]
           category_map == load_category_map(db, q.user_id)
       IN  req' = [req EXCEPT
                ![r].pc = "store",
                ![r].fetches = @ + 1,
                ![r].value = IF q.kind = "search_expenses"
                             THEN search_expenses_value(q.rows, q.total, category_map)
                             ELSE totals_value(q.rows, category_map)]
    /\ last' = [op |-> "map", req |-> r]
    /\ UNCHANGED <<now, db, cache, cache_stats, outsideApp>>

\* the handler resumes after crud returned: cache_set(cache_key, ..., ttl)
Store(r) ==
    /\ req[r].pc = "store"
    /\ LET q == req[r]
           key == CacheKeyOf(q.kind, q.user_id, q.args.category_id)
           res == cache_set(cache, cache_stats, key, q.value, TtlOf(q.kind), now)
       IN  /\ cache' = res.cache
           /\ cache_stats' = res.stats
           /\ lastSet' = [k \in DOMAIN res.cache |->
                             IF k = key
                             THEN [t |-> now, ttl |-> TtlOf(q.kind), value |-> q.value]
                             ELSE lastSet[k]]
    /\ req' = [req EXCEPT ![r].pc = "done", ![r].status = 200]
    /\ last' = [op |-> "store", req |-> r]
    /\ UNCHANGED <<now, db, outsideAppCache>>

TickApp ==
    \E d \in AppAdvances :
        /\ now + d <= MaxAppTime
        /\ now' = now + d
        /\ last' = [op |-> "tick"]
        /\ UNCHANGED <<db, req, cache, cache_stats, outsideApp>>

InitApp ==
    /\ now = 0
    /\ last = [op |-> "init"]
    /\ rate_limit_store = <<>>
    /\ limits = [e \in Endpoints |-> 1]
    /\ rlHist = <<>>
    /\ running = Idle
    /\ pc = <<>>
    /\ request_counts = <<>>
    /\ CacheUnused
    /\ db = SeededDb
    /\ users = <<>>
    /\ req = <<>>

NextApp ==
    \/ \E u \in UserIds, n \in NewNames :
          Mutate("create_category", u, [NoArgs EXCEPT !.name = n, !.parent_id = NoId])
    \/ \E u \in UserIds, c \in TargetCategoryIds, p \in UpdatePayloads :
          Mutate("update_category", u,
                 [NoArgs EXCEPT !.id = c, !.name = p.name, !.parent_id = p.parent_id])
    \/ \E u \in UserIds, c \in TargetCategoryIds :
          Mutate("delete_category", u, [NoArgs EXCEPT !.id = c])
    \/ \E u \in UserIds, c \in NewExpenseCategoryIds \cap DOMAIN db.categories,
          a \in Amounts :
          Mutate("create_expense", u, [NoArgs EXCEPT !.category_id = c, !.amount = a])
    \/ \E u \in UserIds, x \in TargetExpenseIds, c \in ExpenseCategoryIds :
          Mutate("update_expense", u,
                 [NoArgs EXCEPT !.id = x, !.category_id = c, !.amount = UnsetId])
    \/ \E u \in UserIds, x \in TargetExpenseIds :
          Mutate("delete_expense", u, [NoArgs EXCEPT !.id = x])
    \/ \E r \in Requests : Flush(r)
    \/ \E r \in Requests : InvalidateCaches(r)
    \/ \E r \in Requests : Commit(r)
    \/ \E u \in UserIds : Probe("list_categories", u, NoId)
    \/ \E u \in UserIds, c \in CategoryFilters : Probe("search_expenses", u, c)
    \/ \E u \in UserIds, c \in CategoryFilters : Probe("get_summary", u, c)
    \/ \E r \in Requests : Count(r)
    \/ \E r \in Requests : Fetch(r)
    \/ \E r \in Requests : FetchMap(r)
    \/ \E r \in Requests : Store(r)
    \/ TickApp

SpecApp == InitApp /\ [][NextApp]_vars

-----------------------------------------------------------------------------
(* Claims about the invalidation done by the mutating handlers *)

\* the handler of a mutating request has returned without raising
Succeeded(r) ==
    /\ req[r].kind \in Writes
    /\ req[r].status \in {200, 201, 204}
    /\ req[r].pc \in {"invalidated", "done"}

\* the prefixes the policy names for a mutation of this kind by this user
PolicyPrefixes(kind, user_id) ==
    IF kind \in CategoryWrites
    THEN {CategoriesPrefix(user_id), SummaryPrefix(user_id)}
    ELSE {ExpensesPrefix(user_id), SummaryPrefix(user_id)}

\* the keys the read handlers can compose, and the keys stored
ReadKeys ==
    {CacheKeyOf(k, u, c) : k \in Reads, u \in UserIds, c \in CategoryFilters}
        \cup DOMAIN cache

\* cache_get(key) called now would count a miss
WouldMiss(key) ==
    cache_get(cache, cache_stats, key, now).stats.misses = cache_stats.misses + 1

\* C8: every successful create, update or delete of an expense by U has
\* invalidated expenses:U and summary:U, every successful create, update or
\* delete of a category by U has invalidated categories:U and summary:U; and
\* right after a handler's invalidation a get of any key under those prefixes
\* is a miss, whatever the expiry of the entry that was stored.
C8_MutationsInvalidate ==
    /\ \A r \in Requests :
          Succeeded(r) =>
              PolicyPrefixes(req[r].kind, req[r].user_id) \subseteq req[r].invalidated
    /\ last.op = "invalidate" =>
          \A key \in ReadKeys :
              (\E p \in PolicyPrefixes(req[last.req].kind, req[last.req].user_id) :
                    StartsWith(key, p))
                  => WouldMiss(key)

\* an invalidation removed entries whose TTL had not elapsed
C8_Witness ==
    /\ last.op = "invalidate"
    /\ last.removed > 0
    /\ now = 0
    /\ Succeeded(last.req)

\* what a read handler would fetch for its key from the rows dbv
ReadValue(kind, user_id, category_id, dbv) ==
    CASE kind = "list_categories" -> list_categories_value(dbv, user_id)
      [] kind = "search_expenses" ->
            LET rows == search_expenses_rows(dbv, user_id, category_id)
            IN  search_expenses_value(rows, Cardinality(rows),
                                      load_category_map(dbv, user_id))
      [] kind = "get_summary" ->
            totals_value(totals_rows(dbv, user_id, category_id),
                         load_category_map(dbv, user_id))

\* C9: right after the invalidation that follows a successful mutation by U,
\* the cache serves no entry of U whose content the mutation changes; a
\* rename, re-parenting or delete of a category leaves no expense listing
\* with the old category_path or the deleted expenses.
C9_NoFalseNegativeInvalidation ==
    last.op = "invalidate" =>
        LET w == req[last.req]
            after == Apply(w.op, db)
        IN  \A kind \in Reads, c \in CategoryFilters :
                ReadValue(kind, w.user_id, c, db) # ReadValue(kind, w.user_id, c, after)
                    => ~Cached(cache, CacheKeyOf(kind, w.user_id, c), now)

\* C10: a mutating handler invalidates the cache only once the transaction
\* holding its mutation has committed.
C10_InvalidationAfterCommit ==
    \A r \in Requests : req[r].invalidated # {} => req[r].committed

-----------------------------------------------------------------------------
(* Claims about reads racing a write *)

\* the write request w has fully completed and no other request wrote
OnlyWriteCompleted(w) ==
    /\ req[w].kind \in Writes
    /\ req[w].committed
    /\ \A x \in Requests \ {w} : req[x].kind \in Reads

\* C11: once a write request on U's data has fully completed (mutation,
\* invalidation, commit), a read of U that begins now returns no value
\* fetched from the rows as they were before the write: under the prefixes
\* the writer invalidated, what the cache serves is what the committed rows
\* give.
C11_NoStaleReadAfterWrite ==
    \A w \in Requests :
        OnlyWriteCompleted(w) =>
            \A kind \in Reads, c \in CategoryFilters :
                LET key == CacheKeyOf(kind, req[w].user_id, c)
                IN  (/\ Cached(cache, key, now)
                     /\ \E p \in req[w].invalidated : StartsWith(key, p))
                        => cache[key].value = ReadValue(kind, req[w].user_id, c, db)

-----------------------------------------------------------------------------
(* Claims about the cached read handlers *)

ReadRequests == {r \in Requests : req[r].kind \in Reads}

\* the key of a read request
KeyOfRequest(r) == CacheKeyOf(req[r].kind, req[r].user_id, req[r].args.category_id)

-----------------------------------------------------------------------------
(* Claims about the cache counters, overwrites and the global invalidation *)

\* C13: since the last reset_stats, hits + misses is the number of get
\* calls, sets the number of set calls, invalidations the number of entries
\* removed by invalidate calls (lazy expiry and overwrites are not counted),
\* total_requests is hits + misses, and hit_rate is 0 when no get was issued.
C13_CountersMatchCalls ==
    LET stats == get_stats(cache, cache_stats)
    IN  /\ stats.hits + stats.misses = callCounts.gets
        /\ stats.sets = callCounts.sets
        /\ stats.invalidations = callCounts.removed
        /\ stats.total_requests = stats.hits + stats.misses
        /\ callCounts.gets = 0 => stats.hit_rate = 0

\* one set, a get that hit, an invalidate that removed the entry, a get that
\* missed: hit_rate is 50.00
C13_Witness ==
    /\ callCounts = [gets |-> 2, sets |-> 1, removed |-> 1]
    /\ cache_stats.hits = 1 /\ cache_stats.misses = 1
    /\ get_stats(cache, cache_stats).hit_rate = 5000

\* the step is a call of set(key, value, ttl)
IsSetStep(key, value, ttl) ==
    /\ cacheCalls' = cacheCalls + 1
    /\ last'.op = "set" /\ last'.key = key /\ last'.value = value /\ last'.ttl = ttl

\* C14: a set of a key that already has an entry leaves exactly one entry for
\* the key, with the new value and the expiry call time + new ttl (also when
\* that is earlier than the expiry replaced); every other entry is kept, and
\* a get of the key before that expiry returns the new value.
C14_OverwriteReplaces ==
    [][\A key \in CacheKeys, i \in SetInputs :
          (IsSetStep(key, i[1], i[2]) /\ key \in DOMAIN cache) =>
              /\ DOMAIN cache' = DOMAIN cache
              /\ cache'[key] = [expires_at |-> now + i[2], value |-> i[1]]
              /\ \A k \in DOMAIN cache \ {key} : cache'[k] = cache[k]
              /\ \A t \in now..(now + i[2] - 1) :
                    cache_get(cache', cache_stats', key, t).ret = i[1]
      ]_vars

\* an entry was replaced by set(k, "v2", 30), which expires earlier than the
\* entry it replaced
C14_Witness ==
    /\ last.op = "set" /\ last.value = "v2" /\ last.ttl = 30
    /\ last.replaced > now + 30
    /\ cache[last.key] = [expires_at |-> now + 30, value |-> "v2"]
    /\ current_size(cache) = 1

\* the step is a call of invalidate() with no prefix
IsInvalidateAllStep ==
    cacheCalls' = cacheCalls + 1 /\ last'.op = "invalidate_all"

\* C15: invalidate with no prefix removes every entry, expired or not:
\* current_size becomes 0, the invalidation counter grows by the number of
\* entries held before the call, and a get of a key that was not set since
\* is a miss.
C15_InvalidateAllEmpties ==
    [][/\ IsInvalidateAllStep =>
             /\ current_size(cache') = 0
             /\ cache_stats' = [cache_stats EXCEPT !.invalidations =
                                   @ + Cardinality(DOMAIN cache)]
             /\ \A key \in CacheKeys :
                   cache_get(cache', cache_stats', key, now).ret = None
       /\ \A key \in CacheKeys :
             (IsGetStep(key) /\ lastSet[key] = NoSet) =>
                 /\ last'.ret = None
                 /\ cache_stats'.misses = cache_stats.misses + 1
      ]_vars

\* the call removed two entries, one of them already expired
C15_Witness ==
    /\ last.op = "invalidate_all"
    /\ last.held = 2 /\ last.expired = 1
    /\ cache = <<>>
    /\ cache_stats.invalidations = 2

\* C17: a set with a non-positive ttl is refused at the boundary: it stores
\* no entry and is not counted as a set.
C17_NonPositiveTtlRejected ==
    [][\A key \in CacheKeys, i \in SetInputs :
          (IsSetStep(key, i[1], i[2]) /\ i[2] <= 0) =>
              /\ cache' = cache
              /\ cache_stats' = cache_stats
      ]_vars

\* the step is a call of reset_stats()
IsResetStatsStep ==
    cacheCalls' = cacheCalls + 1 /\ last'.op = "reset_stats"

\* C19: reset_stats sets hits, misses, sets and invalidations to 0 and leaves
\* every stored entry (key, value, expiry) and current_size unchanged.
C19_ResetStatsKeepsEntries ==
    [][IsResetStatsStep =>
          /\ cache_stats' = [hits |-> 0, misses |-> 0, sets |-> 0,
                             invalidations |-> 0]
          /\ cache' = cache
          /\ current_size(cache') = current_size(cache)
      ]_vars

\* reset_stats was the fourth call, made while one entry was stored
C19_Witness ==
    /\ last.op = "reset_stats"
    /\ cache_stats = EmptyStats
    /\ current_size(cache) = 1
    /\ cacheCalls = 4

-----------------------------------------------------------------------------
(* Claims about unidentified clients *)

\* C16: for a client whose identity is absent or empty, check_rate_limit
\* returns true for every endpoint and every limit (0 and 1 included), however
\* many calls were made before, and leaves the limiter store as it was.
C16_UnknownClientAdmitted ==
    /\ \A e \in Endpoints, c \in UnknownClients, l \in 0..MaxLimit :
          check_rate_limit(rate_limit_store, e, c, l, now) =
              [ok |-> TRUE, store |-> rate_limit_store]
    /\ (last.op = "check_rate_limit" /\ last.client_ip \in UnknownClients)
          => last.ok

\* a call with the empty identity and limit 0 was admitted while an
\* identified client of the same endpoint is at its limit
C16_Witness ==
    /\ last.op = "check_rate_limit"
    /\ last.client_ip = "" /\ last.limit = 0 /\ last.ok
    /\ \E c \in ClientIps :
          StoredCount(rate_limit_store, RateLimitKey(last.endpoint, c))
              >= limits[last.endpoint]

-----------------------------------------------------------------------------
(* app/main.py, app/crud.py: POST /auth/register and POST /auth/login, one  *)
(* action per stretch between two awaits.  Usernames are the sequences of   *)
(* their characters, as they end a cache key.                               *)

RegisterEndpoint == "/auth/register"

\* the requests_per_minute each handler passes to check_rate_limit
RequestsPerMinuteOfLogin(endpoint) == 5

RequestsPerMinute(endpoint) == IF endpoint = RegisterEndpoint THEN 3 ELSE 5

UserTtl == 300
StrUser == <<"u", "s", "e", "r">>

\* f"user:{username}"
UserKey(username) == StrUser \o Colon \o username

Ann == <<"a", "n", "n">>
Bob == <<"b", "o", "b">>
Usernames == {Ann, Bob}
Emails == {"ann@example.com", "bob@example.com"}
Passwords == {"secret", "wrong"}
RegisterPassword == "secret"

\* hash_password, and verify_password against the stored hash
hash_password(password) == <<"bcrypt", password>>
verify_password(plain_password, hashed_password) ==
    hashed_password = hash_password(plain_password)

UserExistsDetail == "Username or email already exists"
IntegrityDetail == "A resource with this information already exists"
NoDetail == ""
NoRow == [id |-> NoId, username |-> <<>>, email |-> "", hashed_password |-> <<>>]

\* the limiter and the table with nothing done yet, and as they are once
\* ann has registered, a second registration of ann was refused and four
\* logins of unknown names have failed, all at time 0
ColdStart ==
    /\ rate_limit_store = <<>>
    /\ users = <<>>
WarmStart ==
    /\ rate_limit_store =
           (RateLimitKey(RegisterEndpoint, LoginClient) :> << <<0, 2>> >>)
        @@ (RateLimitKey(LoginEndpoint, LoginClient) :> << <<0, 4>> >>)
    /\ users = (1 :> [username |-> Ann, email |-> "ann@example.com",
                      hashed_password |-> hash_password(RegisterPassword)])

NewAuthRequest(kind, client_ip, username, email, password) ==
    [kind |-> kind, client_ip |-> client_ip, username |-> username,
     email |-> email, password |-> password, pc |-> "start", status |-> 0,
     detail |-> NoDetail, quota_before |-> 0, quota_after |-> 0,
     statements |-> 0, cache_calls |-> 0, created |-> NoId, row |-> NoRow]

\* select ... where username == :username or email == :email
ExistingUsers(table, username, email) ==
    {u \in DOMAIN table : table[u].username = username \/ table[u].email = email}

\* the row selected by username
UserRow(table, username) ==
    IF \E u \in DOMAIN table : table[u].username = username
    THEN LET u == CHOOSE v \in DOMAIN table : table[v].username = username
         IN  [id |-> u, username |-> table[u].username, email |-> table[u].email,
              hashed_password |-> table[u].hashed_password]
    ELSE NoRow

\* register is entered: check_rate_limit, 429 when it refuses, else
\* crud.create_user up to its first await
Register(client_ip, username, email) ==
    /\ Len(req) < MaxAuthReq
    /\ LET key == RateLimitKey(RegisterEndpoint, client_ip)
           rl == check_rate_limit(rate_limit_store, RegisterEndpoint, client_ip,
                                  RequestsPerMinute(RegisterEndpoint), now)
           r == NewAuthRequest("register", client_ip, username, email, RegisterPassword)
       IN  /\ rate_limit_store' = rl.store
           /\ req' = Append(req,
                   [r EXCEPT !.quota_before = StoredCount(rate_limit_store, key),
                             !.quota_after = StoredCount(rl.store, key),
                             !.status = IF rl.ok THEN 0 ELSE 429,
                             !.pc = IF rl.ok THEN "check" ELSE "done"])
    /\ last' = [op |-> "register", req |-> Len(req) + 1]
    /\ UNCHANGED <<now, users, cache, cache_stats, outsideAuth>>

\* create_user: the SELECT of an existing user; UserAlreadyExistsError is
\* answered 400 by the handler
RegisterCheck(r) ==
    /\ req[r].pc = "check"
    /\ LET exists == ExistingUsers(users, req[r].username, req[r].email) # {}
       IN  req' = [req EXCEPT ![r].statements = @ + 1,
                              ![r].pc = IF exists THEN "done" ELSE "commit",
                              ![r].status = IF exists THEN 400 ELSE 0,
                              ![r].detail = IF exists THEN UserExistsDetail ELSE @]
    /\ last' = [op |-> "register_check", req |-> r]
    /\ UNCHANGED <<now, users, rate_limit_store, cache, cache_stats, outsideAuth>>

\* create_user: session.commit() sends the INSERT; the unique constraints of
\* the table raise IntegrityError, which integrity_error_handler answers
RegisterCommit(r) ==
    /\ req[r].pc = "commit"
    /\ LET q == req[r]
           conflict == ExistingUsers(users, q.username, q.email) # {}
           id == NextId(users)
       IN  /\ users' = IF conflict THEN users
                       ELSE (id :> [username |-> q.username, email |-> q.email,
                                    hashed_password |-> hash_password(q.password)])
                            @@ users
           /\ req' = [req EXCEPT ![r].statements = @ + 1,
                                 ![r].pc = IF conflict THEN "done" ELSE "refresh",
                                 ![r].status = IF conflict THEN 409 ELSE 0,
                                 ![r].detail = IF conflict THEN IntegrityDetail ELSE @,
                                 ![r].created = IF conflict THEN NoId ELSE id]
    /\ last' = [op |-> "register_commit", req |-> r]
    /\ UNCHANGED <<now, rate_limit_store, cache, cache_stats, outsideAuth>>

\* create_user after session.refresh: invalidate(f"user:{username}"); 201
RegisterReturn(r) ==
    /\ req[r].pc = "refresh"
    /\ LET res == cache_invalidate(cache, cache_stats, UserKey(req[r].username))
       IN  /\ cache' = res.cache
           /\ cache_stats' = res.stats
    /\ req' = [req EXCEPT ![r].statements = @ + 1, ![r].cache_calls = @ + 1,
                          ![r].pc = "done", ![r].status = 201]
    /\ last' = [op |-> "register_return", req |-> r]
    /\ UNCHANGED <<now, users, rate_limit_store, outsideAuth>>

\* the status login answers once it holds the user, or no user
LoginStatus(row, password) ==
    IF row = NoRow \/ ~verify_password(password, row.hashed_password)
    THEN 401 ELSE 200

\* login is entered: check_rate_limit, 429 when it refuses, else
\* get_user_by_username up to its first await: cache_get(f"user:{username}"),
\* whose hit is answered without a statement
Login(client_ip, username, password) ==
    /\ Len(req) < MaxAuthReq
    /\ LET key == RateLimitKey(LoginEndpoint, client_ip)
           rl == check_rate_limit(rate_limit_store, LoginEndpoint, client_ip,
                                  RequestsPerMinute(LoginEndpoint), now)
           r == NewAuthRequest("login", client_ip, username, "", password)
           q == [r EXCEPT !.quota_before = StoredCount(rate_limit_store, key),
                          !.quota_after = StoredCount(rl.store, key)]
           res == cache_get(cache, cache_stats, UserKey(username), now)
           hit == Cached(cache, UserKey(username), now)
       IN  /\ rate_limit_store' = rl.store
           /\ IF ~rl.ok
              THEN /\ req' = Append(req, [q EXCEPT !.status = 429, !.pc = "done"])
                   /\ UNCHANGED <<cache, cache_stats>>
              ELSE /\ cache' = res.cache
                   /\ cache_stats' = res.stats
                   /\ req' = Append(req,
                         IF hit
                         THEN [q EXCEPT !.cache_calls = 1, !.pc = "done",
                                        !.row = cache[UserKey(username)].value,
                                        !.status = LoginStatus(
                                            cache[UserKey(username)].value, password)]
                         ELSE [q EXCEPT !.cache_calls = 1, !.pc = "lookup"])
    /\ last' = [op |-> "login", req |-> Len(req) + 1]
    /\ UNCHANGED <<now, users, outsideAuth>>

\* get_user_by_username: the SELECT by username
LoginLookup(r) ==
    /\ req[r].pc = "lookup"
    /\ req' = [req EXCEPT ![r].statements = @ + 1, ![r].pc = "found",
                          ![r].row = UserRow(users, req[r].username)]
    /\ last' = [op |-> "login_lookup", req |-> r]
    /\ UNCHANGED <<now, users, rate_limit_store, cache, cache_stats, outsideAuth>>

\* get_user_by_username after the SELECT: no row returns None, a row is
\* stored with cache_set(..., ttl=300); then login answers 401 or 200
LoginAnswer(r) ==
    /\ req[r].pc = "found"
    /\ LET q == req[r]
           res == cache_set(cache, cache_stats, UserKey(q.username), q.row,
                            UserTtl, now)
       IN  /\ IF q.row = NoRow
              THEN UNCHANGED <<cache, cache_stats>>
              ELSE cache' = res.cache /\ cache_stats' = res.stats
           /\ req' = [req EXCEPT ![r].pc = "done",
                                 ![r].cache_calls = IF q.row = NoRow THEN @ ELSE @ + 1,
                                 ![r].status = LoginStatus(q.row, q.password)]
    /\ last' = [op |-> "login_answer", req |-> r]
    /\ UNCHANGED <<now, users, rate_limit_store, outsideAuth>>

InitAuth ==
    /\ now = 0
    /\ last = [op |-> "init"]
    /\ ColdStart \/ WarmStart
    /\ limits = [e \in Endpoints |-> RequestsPerMinute(e)]
    /\ rlHist = <<>>
    /\ running = Idle
    /\ pc = <<>>
    /\ request_counts = <<>>
    /\ CacheUnused
    /\ db = [categories |-> <<>>, expenses |-> <<>>]
    /\ req = <<>>

NextAuth ==
    \/ \E c \in ClientIps, u \in Usernames, e \in Emails : Register(c, u, e)
    \/ \E r \in Requests : RegisterCheck(r)
    \/ \E r \in Requests : RegisterCommit(r)
    \/ \E r \in Requests : RegisterReturn(r)
    \/ \E c \in ClientIps, u \in Usernames, p \in Passwords : Login(c, u, p)
    \/ \E r \in Requests : LoginLookup(r)
    \/ \E r \in Requests : LoginAnswer(r)

SpecAuth == InitAuth /\ [][NextAuth]_vars

-----------------------------------------------------------------------------
(* Claims about /auth/register and /auth/login *)

\* C18: register (3 per minute) and login (5 per minute) answer 429 exactly
\* when the limiter refuses, and then do no backing work: no statement on the
\* users table, no user created, no cache call, the quota left as it was;
\* every attempt the limiter let through, whatever its outcome, has taken one
\* unit of the client's quota.
C18_RejectedDoesNoWork ==
    \A r \in Requests :
        LET q == req[r]
            limit == IF q.kind = "register" THEN 3 ELSE 5
        IN  /\ q.status = 429 <=> q.quota_before >= limit
            /\ q.status = 429 =>
                  /\ q.pc = "done"
                  /\ q.statements = 0 /\ q.cache_calls = 0
                  /\ q.created = NoId /\ q.row = NoRow
                  /\ q.quota_after = q.quota_before
            /\ q.status # 429 => q.quota_after = q.quota_before + 1

\* a login that failed with 401 took the fifth unit of the minute, and the
\* login that followed was answered 429
C18_Witness ==
    /\ Len(req) = 2
    /\ req[1].kind = "login" /\ req[1].status = 401 /\ req[1].quota_after = 5
    /\ req[2].kind = "login" /\ req[2].status = 429 /\ req[2].quota_before = 5
    /\ cache_stats.hits + cache_stats.misses = req[1].cache_calls

\* the detail of the answer contains 'already exists'
MentionsAlreadyExists(detail) == detail \in {UserExistsDetail, IntegrityDetail}

RegisterRequests == {r \in Requests : req[r].kind = "register"}

\* C20: after any registrations, concurrent ones included, no two users share
\* a username or an email, and a registration that the limiter let through and
\* that found its username or email taken created no user and was answered
\* 400 with a detail containing 'already exists'.
C20_UniqueUsers ==
    /\ \A a, b \in DOMAIN users :
          a # b => /\ users[a].username # users[b].username
                   /\ users[a].email # users[b].email
    /\ \A r \in RegisterRequests :
          (req[r].pc = "done" /\ req[r].status # 429 /\ req[r].created = NoId) =>
              /\ req[r].status = 400
              /\ MentionsAlreadyExists(req[r].detail)

-----------------------------------------------------------------------------
(* Claims about what a check leaves in the limiter store *)

\* the delays after which the rejected client tries again: either side of the
\* instants at which a tuple stored 0, 30 or 59 seconds ago leaves the window
RetryDelays == {0, 1, 2, 30, 31, 60, 61}

IsRejectedStep == last'.op = "check_rate_limit" /\ ~last'.ok

\* C23: for a limit >= 1, a check_rate_limit call that returns false leaves
\* the store exactly as it was (the pair's count and timestamp, and every
\* other pair's record), so at no later instant does the rejection change
\* whether the client is admitted.
C23_RejectionLeavesStore ==
    [][IsRejectedStep =>
          /\ limits[last'.endpoint] >= 1
          /\ rate_limit_store' = rate_limit_store
          /\ \A d \in RetryDelays :
                check_rate_limit(rate_limit_store', last'.endpoint, last'.client_ip,
                                 limits[last'.endpoint], now + d).ok
                = check_rate_limit(rate_limit_store, last'.endpoint, last'.client_ip,
                                   limits[last'.endpoint], now + d).ok]_vars

\* a check rejected 30 seconds or more after the pair's last admitted request:
\* the stored timestamp is still that of the admitted request, and the other
\* pair has a record too
C23_Witness ==
    /\ last.op = "check_rate_limit" /\ ~last.ok
    /\ LET key == RateLimitKey(last.endpoint, last.client_ip)
       IN  /\ Len(rate_limit_store[key]) = 1
           /\ rate_limit_store[key][1][1] < now
           /\ rate_limit_store[key][1][2] = limits[last.endpoint]
           /\ \E other \in DOMAIN rate_limit_store : other # key

\* every list of the store holds at most one tuple, with a count in 1..L
SingleCounter ==
    \A key \in DOMAIN rate_limit_store :
        /\ Len(rate_limit_store[key]) <= 1
        /\ \A i \in 1..Len(rate_limit_store[key]) :
              /\ rate_limit_store[key][i][2] >= 1
              /\ rate_limit_store[key][i][2] <= LimitOfKey(key)

\* the count a pair still has in the window ending at t
CountInWindow(st, key, t) ==
    IF key \in DOMAIN st
    THEN SumCounts(SelectSeq(st[key], LAMBDA e : e[1] > t - Window))
    ELSE 0

IsAdmittedStep ==
    /\ last'.op = "check_rate_limit" /\ last'.ok
    /\ last'.client_ip \in ClientIps

\* C30: the list stored for a key never holds more than one (timestamp, count)
\* tuple; an admitted request leaves the single tuple (current time, count of
\* the window before the call + 1) rather than one tuple more; and for a key
\* checked with one limit L >= 1 the stored count is between 1 and L.
C30_SingleCounterPerKey ==
    /\ []SingleCounter
    /\ [][IsAdmittedStep =>
             LET key == RateLimitKey(last'.endpoint, last'.client_ip)
             IN  rate_limit_store'[key]
                 = <<<<now, CountInWindow(rate_limit_store, key, now) + 1>>>>]_vars

\* a second request admitted 30 seconds after the first of a pair of limit 2:
\* one tuple, stamped with the time of the second request, counting both
C30_Witness ==
    /\ last.op = "check_rate_limit" /\ last.ok /\ last.client_ip \in ClientIps
    /\ LET key == RateLimitKey(last.endpoint, last.client_ip)
       IN  /\ rate_limit_store[key] = <<<<now, 2>>>>
           /\ \E i \in CallsOf(key) : rlHist[i].ok /\ rlHist[i].t < now

-----------------------------------------------------------------------------
(* The limiter checked for two endpoints and two clients *)

\* two client addresses, the text of one a prefix of the other's
PairClients == {"10.0.0.1", "10.0.0.10"}

InitPairs == InitRL

CheckPair(endpoint, client_ip) ==
    /\ Len(rlHist) < MaxPairCalls
    /\ LET r == check_rate_limit(rate_limit_store, endpoint, client_ip,
                                 limits[endpoint], now)
           key == RateLimitKey(endpoint, client_ip)
       IN  /\ rate_limit_store' = r.store
           /\ last' = [op |-> "check_rate_limit", endpoint |-> endpoint,
                       client_ip |-> client_ip, ok |-> r.ok]
           /\ rlHist' = Append(rlHist, [key |-> key, t |-> now, ok |-> r.ok,
                                        count |-> StoredCount(r.store, key)])
    /\ UNCHANGED <<now, limits, outsideRL>>

NextPairs ==
    \/ \E e \in Endpoints, c \in PairClients : CheckPair(e, c)
    \/ TickRL

SpecPairs == InitPairs /\ [][NextPairs]_vars

\* the list stored for a pair (empty when the pair has none)
RecordOf(st, endpoint, client_ip) ==
    IF RateLimitKey(endpoint, client_ip) \in DOMAIN st
    THEN st[RateLimitKey(endpoint, client_ip)]
    ELSE <<>>

\* what a check for a pair at time t with limit l returns and stores for it
OutcomeOf(st, endpoint, client_ip, l, t) ==
    LET r == check_rate_limit(st, endpoint, client_ip, l, t)
    IN  <<r.ok, RecordOf(r.store, endpoint, client_ip)>>

\* C25: a check for one (endpoint, client) pair changes neither the stored
\* record of a pair that differs in endpoint or in client, nor what any later
\* check for such a pair returns.
C25_PairsIndependent ==
    [][last'.op = "check_rate_limit" =>
          \A e \in Endpoints, c \in PairClients :
              (e # last'.endpoint \/ c # last'.client_ip) =>
                  /\ RecordOf(rate_limit_store', e, c) = RecordOf(rate_limit_store, e, c)
                  /\ \A l \in 1..MaxLimit, d \in {0, 1, Window} :
                        OutcomeOf(rate_limit_store', e, c, l, now + d)
                        = OutcomeOf(rate_limit_store, e, c, l, now + d)]_vars

\* one endpoint, both clients: the first is rejected at its limit while the
\* second, admitted later, keeps its own count and timestamp
C25_Witness ==
    /\ last.op = "check_rate_limit" /\ ~last.ok
    /\ last.client_ip = "10.0.0.1"
    /\ RecordOf(rate_limit_store, last.endpoint, "10.0.0.1") = <<<<0, 1>>>>
    /\ RecordOf(rate_limit_store, last.endpoint, "10.0.0.10") = <<<<now, 1>>>>
    /\ now > 0

-----------------------------------------------------------------------------
(* Claims about what a get leaves in the cache *)

\* C24: a get that hits changes nothing but the hit counter (the expiry of the
\* entry read and every other entry stay as they were); a get that misses
\* changes the miss counter only and removes at most the entry of its key,
\* which was then expired.
C24_GetFrame ==
    [][IsGetStep(last'.key) =>
          IF last'.ret # None
          THEN /\ cache' = cache
               /\ cache_stats' = [cache_stats EXCEPT !.hits = @ + 1]
          ELSE /\ cache_stats' = [cache_stats EXCEPT !.misses = @ + 1]
               /\ IF last'.key \in DOMAIN cache
                  THEN /\ Expired(cache[last'.key].expires_at, now)
                       /\ cache' = Without(cache, {last'.key})
                  ELSE cache' = cache]_vars

\* a hit 30 seconds after the set: the entry still expires 60 seconds after
\* the set, and an expired entry of another key is still in the cache
C24_Witness ==
    /\ last.op = "get" /\ last.ret # None
    /\ lastSet[last.key].t < now
    /\ cache[last.key].expires_at = lastSet[last.key].t + lastSet[last.key].ttl
    /\ \E k \in DOMAIN cache : k # last.key /\ Expired(cache[k].expires_at, now)
    /\ cache_stats.hits = 1 /\ cache_stats.misses = 0

-----------------------------------------------------------------------------
(* Claims about the users' data kept apart *)

\* the keys the read handlers compose for a user
KeysOf(user_id) == {CacheKeyOf(k, user_id, c) : k \in Reads, c \in CategoryFilters}

\* the step belongs to the handler of a mutating request
IsWriteStep == last'.op \in {"mutate", "flush", "invalidate", "commit"}

\* C26: a write by user U evicts only U's cache entries: through every step of
\* a mutating handler run by U, each entry stored for another user V stays in
\* the cache with the same value and expiry, also when the decimal form of
\* one id is a prefix of the other's (1 and 10).
C26_WriteEvictsOwnEntriesOnly ==
    [][IsWriteStep =>
          \A V \in UserIds \ {req'[last'.req].user_id} :
              \A key \in KeysOf(V) \cap DOMAIN cache :
                  key \in DOMAIN cache' /\ cache'[key] = cache[key]]_vars

\* the name as the uniqueness rule compares it
Normalized(name) == Lower(Strip(name))

\* C21: no two categories of one user under one parent have names equal after
\* trimming and lower-casing, whatever create_category and update_category
\* requests ran (concurrent ones included); a request answered 409 has
\* changed nothing.
C21_CategoryNamesUnique ==
    /\ \A a, b \in DOMAIN db.categories :
          (/\ a # b
           /\ db.categories[a].user_id = db.categories[b].user_id
           /\ db.categories[a].parent_id = db.categories[b].parent_id)
              => Normalized(db.categories[a].name) # Normalized(db.categories[b].name)
    /\ \A r \in Requests :
          req[r].status = 409 => req[r].op = NoOp /\ ~req[r].committed

\* the request names a category that belongs to another user
NamesForeignCategory(r) ==
    /\ req[r].kind \in {"create_expense", "update_expense"}
    /\ req[r].args.category_id \in DOMAIN db.categories
    /\ db.categories[req[r].args.category_id].user_id # req[r].user_id

\* C27: every stored expense belongs to a category of the same user: its
\* category exists and has the expense's user_id; a create_expense or
\* update_expense request naming another user's category is rejected and
\* stores nothing.
C27_ExpenseCategorySameUser ==
    /\ \A x \in DOMAIN db.expenses :
          /\ db.expenses[x].category_id \in DOMAIN db.categories
          /\ db.categories[db.expenses[x].category_id].user_id = db.expenses[x].user_id
    /\ \A r \in Requests :
          NamesForeignCategory(r) =>
              /\ req[r].op = NoOp
              /\ req[r].status \notin {200, 201}

-----------------------------------------------------------------------------
(* The routes and crud calls that name a category or an expense by its id *)

\* crud.get_category is called: its SELECT by id and user_id; None is
\* answered 404
GetCategory(user_id, category_id) ==
    /\ Len(req) < MaxAppReq
    /\ LET res == crud_get_category(db, category_id, user_id)
           r == NewRequest("get_category", user_id, [NoArgs EXCEPT !.id = category_id])
       IN  req' = Append(req,
                [r EXCEPT !.status = res.status, !.fetches = 1,
                          !.value = [items |-> res.items],
                          !.pc = IF res.status = 404 THEN "done" ELSE "path"])
    /\ last' = [op |-> "get", req |-> Len(req) + 1]
    /\ UNCHANGED <<now, db, cache, cache_stats, outsideApp>>

\* crud.get_category: _load_category_map, then full_path is set
GetCategoryPath(r) ==
    /\ req[r].pc = "path"
    /\ LET category_map == load_category_map(db, req[r].user_id)
       IN  req' = [req EXCEPT
                ![r].pc = "done", ![r].fetches = @ + 1,
                ![r].value = [items |->
                    {[id |-> i.id, name |-> i.name, parent_id |-> i.parent_id,
                      full_path |-> build_category_path_from_map(i.id, category_map)] :
                     i \in req[r].value.items}]]
    /\ last' = [op |-> "path", req |-> r]
    /\ UNCHANGED <<now, db, cache, cache_stats, outsideApp>>

\* crud.get_expense is called in a session of its own
GetExpense(user_id, expense_id) ==
    /\ Len(req) < MaxAppReq
    /\ LET res == crud_get_expense(db, expense_id, user_id)
           r == NewRequest("get_expense", user_id, [NoArgs EXCEPT !.id = expense_id])
       IN  req' = Append(req,
                [r EXCEPT !.status = res.status, !.fetches = 1,
                          !.value = [items |-> res.items], !.pc = "done"])
    /\ last' = [op |-> "get", req |-> Len(req) + 1]
    /\ UNCHANGED <<now, db, cache, cache_stats, outsideApp>>

NextById ==
    \/ \E u \in UserIds, c \in TargetCategoryIds : GetCategory(u, c)
    \/ \E r \in Requests : GetCategoryPath(r)
    \/ \E u \in UserIds, x \in TargetExpenseIds : GetExpense(u, x)
    \/ \E u \in UserIds, c \in TargetCategoryIds, p \in UpdatePayloads :
          Mutate("update_category", u,
                 [NoArgs EXCEPT !.id = c, !.name = p.name, !.parent_id = p.parent_id])
    \/ \E u \in UserIds, c \in TargetCategoryIds :
          Mutate("delete_category", u, [NoArgs EXCEPT !.id = c])
    \/ \E u \in UserIds, x \in TargetExpenseIds, c \in ExpenseCategoryIds :
          Mutate("update_expense", u,
                 [NoArgs EXCEPT !.id = x, !.category_id = c, !.amount = UnsetId])
    \/ \E u \in UserIds, x \in TargetExpenseIds :
          Mutate("delete_expense", u, [NoArgs EXCEPT !.id = x])
    \/ \E r \in Requests : Flush(r)
    \/ \E r \in Requests : InvalidateCaches(r)
    \/ \E r \in Requests : Commit(r)
    \/ \E u \in UserIds : Probe("list_categories", u, NoId)
    \/ \E u \in UserIds, c \in CategoryFilters : Probe("search_expenses", u, c)
    \/ \E r \in Requests : Count(r)
    \/ \E r \in Requests : Fetch(r)
    \/ \E r \in Requests : FetchMap(r)
    \/ \E r \in Requests : Store(r)
    \/ TickApp

SpecById == InitApp /\ [][NextById]_vars

ByIdKinds == {"get_category", "update_category", "delete_category",
              "get_expense", "update_expense", "delete_expense"}

\* the request names by id a row that another user owns
NamesForeignRow(q, dbv) ==
    /\ q.kind \in ByIdKinds
    /\ IF q.kind \in {"get_category", "update_category", "delete_category"}
       THEN /\ q.args.id \in DOMAIN dbv.categories
            /\ dbv.categories[q.args.id].user_id # q.user_id
       ELSE /\ q.args.id \in DOMAIN dbv.expenses
            /\ dbv.expenses[q.args.id].user_id # q.user_id

\* the step is the crud call of a request arriving
IsArrivalStep == last'.op \in {"get", "mutate"} /\ Len(req') = Len(req) + 1

\* C28: get, update and delete of a category or an expense called with an id
\* that another user owns report 'not found' (answered 404), return no row,
\* plan no change, and leave the rows and the cache as they were.
C28_ForeignIdNotFound ==
    [][(IsArrivalStep /\ NamesForeignRow(req'[Len(req')], db)) =>
          LET q == req'[Len(req')]
          IN  /\ q.status = 404 /\ q.pc = "done"
              /\ q.op = NoOp /\ q.value = NoValue
              /\ db' = db /\ cache' = cache /\ cache_stats' = cache_stats]_vars

\* user 1's category listing is cached; user 10 has just named a row of
\* user 1 by id and was answered 404; rows and entry are as they were
C28_Witness ==
    /\ Len(req) = 2
    /\ req[1].kind = "list_categories" /\ req[1].user_id = 1 /\ req[1].pc = "done"
    /\ NamesForeignRow(req[2], db) /\ req[2].user_id = 10
    /\ req[2].kind \in {"get_category", "delete_category"}
    /\ req[2].status = 404
    /\ db = SeededDb
    /\ CategoriesKey(1) \in DOMAIN cache
    /\ cache[CategoriesKey(1)].value = req[1].value

-----------------------------------------------------------------------------
(* crud._build_category_path_from_map, one action per iteration of its loop *)

PathIds == 1..MaxPathId

\* the names of the categories explored
NameOf(id) ==
    CASE id = 1 -> "Transport" [] id = 2 -> "Car" [] id = 3 -> "Fuel"
      [] OTHER -> "Other"

\* the dict _load_category_map returns: any ids, any parent links (a cycle,
\* an id that has no row), each id with its name
LoadedMaps ==
    UNION {{[i \in ids |-> <<NameOf(i), parent[i]>>] :
               parent \in [ids -> PathIds \cup {NoId}]} :
           ids \in SUBSET PathIds}

UnclassifiedPath == "Non classé"

\* nothing returned yet
NoPath == ""

LoopConditionWithoutVisited(current_id, visited) == current_id # NoId

\* while current_id is not None and current_id not in visited
LoopCondition(current_id, visited) == current_id # NoId /\ current_id \notin visited

\* " / ".join(reversed(parts)) if parts else "Non classé"
PathOfParts(parts) == IF parts = <<>> THEN UnclassifiedPath ELSE JoinReversed(parts)

InitPath ==
    /\ now = 0
    /\ last = [op |-> "init"]
    /\ rate_limit_store = <<>>
    /\ limits = [e \in Endpoints |-> 1]
    /\ rlHist = <<>>
    /\ running = Idle
    /\ pc = <<>>
    /\ request_counts = <<>>
    /\ CacheUnused
    /\ AppUnused

\* the call, up to the loop
BuildPath(category_id, category_map) ==
    /\ req = <<>>
    /\ LET q == [category_id |-> category_id, category_map |-> category_map,
                 current_id |-> category_id, visited |-> {}, parts |-> <<>>,
                 steps |-> 0, pc |-> "loop", ret |-> NoPath]
       IN  req' = IF category_id = NoId
                  THEN <<[q EXCEPT !.pc = "done", !.ret = UnclassifiedPath]>>
                  ELSE <<q>>
    /\ last' = [op |-> "build_path"]
    /\ UNCHANGED outsidePath

\* one iteration of the loop
BuildPathLoop ==
    /\ req # <<>>
    /\ req[1].pc = "loop"
    /\ LoopCondition(req[1].current_id, req[1].visited)
    /\ LET q == req[1]
           known == q.current_id \in DOMAIN q.category_map
       IN  req' = <<[q EXCEPT
                !.visited = @ \cup {q.current_id},
                !.steps = @ + 1,
                !.parts = IF known THEN Append(@, q.category_map[q.current_id][1])
                          ELSE @,
                !.current_id = IF known THEN q.category_map[q.current_id][2] ELSE @,
                !.pc = IF known THEN "loop" ELSE "return"]>>
    /\ last' = [op |-> "loop"]
    /\ UNCHANGED outsidePath

\* the loop is left and the path is returned
BuildPathReturn ==
    /\ req # <<>>
    /\ \/ req[1].pc = "return"
       \/ req[1].pc = "loop" /\ ~LoopCondition(req[1].current_id, req[1].visited)
    /\ req' = <<[req[1] EXCEPT !.pc = "done", !.ret = PathOfParts(req[1].parts)]>>
    /\ last' = [op |-> "return"]
    /\ UNCHANGED outsidePath

NextPath ==
    \/ req = <<>> /\ \E c \in PathIds \cup {NoId}, m \in LoadedMaps : BuildPath(c, m)
    \/ BuildPathLoop
    \/ BuildPathReturn

SpecPath == InitPath /\ [][NextPath]_vars

\* the call runs to its end once made: nothing is awaited in the function
SpecPathLive == SpecPath /\ WF_vars(NextPath)

PathReturned == req # <<>> /\ req[1].pc = "done"

\* the parent links from id reach a root within n links, all in the map
RECURSIVE IsChain(_, _, _)
IsChain(id, m, n) ==
    /\ id \in DOMAIN m
    /\ \/ m[id][2] = NoId
       \/ n > 0 /\ IsChain(m[id][2], m, n - 1)

\* the names from the root ancestor down to id
RECURSIVE RootPath(_, _)
RootPath(id, m) ==
    IF m[id][2] = NoId THEN m[id][1]
    ELSE RootPath(m[id][2], m) \o " / " \o m[id][1]

PathAsStated ==
    PathReturned =>
        LET q == req[1]
        IN  /\ q.ret = build_category_path_from_map(q.category_id, q.category_map)
            /\ (q.category_id = NoId \/ q.category_id \notin DOMAIN q.category_map)
                   => q.ret = "Non classé"
            /\ (q.category_id # NoId /\ IsChain(q.category_id, q.category_map, MaxPathId))
                   => q.ret = RootPath(q.category_id, q.category_map)

\* the loop never runs more often than the map has ids, plus one
LoopBounded ==
    req # <<>> => req[1].steps <= Cardinality(DOMAIN req[1].category_map) + 1

\* C29: _build_category_path_from_map returns for every category map, also
\* when the parent links form a cycle or name a missing id; for an acyclic
\* chain it returns the names from the root down to the category joined by
\* ' / ', and for None or an unknown id 'Non classé'.
C29_PathTerminates ==
    /\ <>PathReturned
    /\ []LoopBounded
    /\ []PathAsStated

\* the call for 'Car' in a map where 'Car' and 'Transport' are each other's
\* parent has returned after two iterations
C29_Witness ==
    /\ PathReturned
    /\ req[1].category_id = 2
    /\ req[1].category_map = (1 :> <<"Transport", 2>>) @@ (2 :> <<"Car", 1>>)
    /\ req[1].steps = 2
    /\ req[1].ret = "Transport / Car"

-----------------------------------------------------------------------------
(* Reads and a rename of user 1 once the three read routes have been served *)

StaleUser == 1
StaleAdvances == {29, 30}

\* the read route that composes the key
KindOfKey(key) == CHOOSE k \in Reads : CacheKeyOf(k, StaleUser, NoId) = key

\* the cache after GET /categories, GET /expenses and GET /summary of the user
\* were served from the seeded rows at time 0
WarmCache ==
    [key \in {CacheKeyOf(k, StaleUser, NoId) : k \in Reads} |->
        [expires_at |-> TtlOf(KindOfKey(key)),
         value |-> ReadValue(KindOfKey(key), StaleUser, NoId, SeededDb)]]

InitStale ==
    /\ now = 0
    /\ last = [op |-> "init"]
    /\ rate_limit_store = <<>>
    /\ limits = [e \in Endpoints |-> 1]
    /\ rlHist = <<>>
    /\ running = Idle
    /\ pc = <<>>
    /\ request_counts = <<>>
    /\ cache = WarmCache
    /\ cache_stats = [EmptyStats EXCEPT !.misses = 3, !.sets = 3]
    /\ lastSet = [key \in DOMAIN WarmCache |->
                     [t |-> 0, ttl |-> TtlOf(KindOfKey(key)),
                      value |-> WarmCache[key].value]]
    /\ cacheCalls = 0
    /\ callCounts = NoCalls
    /\ db = SeededDb
    /\ users = <<>>
    /\ req = <<>>

TickStale ==
    \E d \in StaleAdvances :
        /\ now + d <= MaxAppTime
        /\ now' = now + d
        /\ last' = [op |-> "tick"]
        /\ UNCHANGED <<db, req, cache, cache_stats, outsideApp>>

NextStale ==
    \/ \E c \in TargetCategoryIds :
          Mutate("update_category", StaleUser,
                 [NoArgs EXCEPT !.id = c, !.name = "C", !.parent_id = UnsetId])
    \/ \E r \in Requests : Flush(r)
    \/ \E r \in Requests : InvalidateCaches(r)
    \/ \E r \in Requests : Commit(r)
    \/ \E k \in Reads : Probe(k, StaleUser, NoId)
    \/ \E r \in Requests : Count(r)
    \/ \E r \in Requests : Fetch(r)
    \/ \E r \in Requests : FetchMap(r)
    \/ \E r \in Requests : Store(r)
    \/ TickStale

SpecStale == InitStale /\ [][NextStale]_vars

\* the step is a read request answered from the cache
IsHitStep == last'.op = "probe" /\ req'[Len(req')].hit

\* the TTL stated for the entries of a read route
StatedTtl(kind) == IF kind = "search_expenses" THEN 30 ELSE 60

\* C22: the value a cache hit returns was stored by a set less than the
\* entry's ttl seconds earlier, the ttl being 60 s for category listings and
\* summaries and 30 s for expense listings; so a stale listing or summary is
\* served for at most that long after it was cached, whatever the interleaving
\* with writes.
C22_StalenessBoundedByTtl ==
    [][IsHitStep =>
          LET q == req'[Len(req')]
              stored == lastSet[CacheKeyOf(q.kind, q.user_id, q.args.category_id)]
          IN  /\ q.value = stored.value
              /\ stored.ttl = StatedTtl(q.kind)
              /\ now - stored.t < stored.ttl]_vars

\* a rename of category 2 has been committed, and 29 seconds after it was
\* cached the expense listing is served with the old category path
C22_Witness ==
    /\ Len(req) = 2
    /\ req[1].kind = "update_category" /\ req[1].committed
    /\ req[2].kind = "search_expenses" /\ req[2].hit
    /\ req[2].value # ReadValue("search_expenses", StaleUser, NoId, db)
    /\ now = 29
    /\ last.op = "probe"

====
